---- MODULE Spec2Model ----
(***************************************************************************)
(* A model of the prompt-analysis pipeline of poml-studio: the pattern     *)
(* matcher, context analyzer and orchestrator (parser/textAnalyzer.ts),    *)
(* the section extractor (parser/sectionExtractor.ts), the confidence      *)
(* scorer (parser/confidenceScorer.ts), the template engine and the        *)
(* formatter (generator/templateEngine.ts, generator/pomlFormatter.ts).    *)
(*                                                                         *)
(* Strings are sequences of one-character strings, so that indexOf,        *)
(* substring, trim, split and the regular expressions of the source can be *)
(* computed as the code computes them.  Character offsets are 0-based, as  *)
(* in the source; t[p+1] is the character at offset p.                     *)
(***************************************************************************)
EXTENDS Integers, Sequences, FiniteSets, TLC

----------------------------------------------------------------------------
(* Characters and strings                                                  *)

Whitespace == {" ", "\n", "\t", "\r"}
Digits == {"0", "1", "2", "3", "4", "5", "6", "7", "8", "9"}
LowerLetters ==
  {"a", "b", "c", "d", "e", "f", "g", "h", "i", "j", "k", "l", "m",
   "n", "o", "p", "q", "r", "s", "t", "u", "v", "w", "x", "y", "z"}
UpperLetters ==
  {"A", "B", "C", "D", "E", "F", "G", "H", "I", "J", "K", "L", "M",
   "N", "O", "P", "Q", "R", "S", "T", "U", "V", "W", "X", "Y", "Z"}
WordChars == LowerLetters \cup UpperLetters \cup Digits \cup {"_"}

\* String.prototype.toLowerCase on one character
LowerChar(c) ==
  CASE c = "A" -> "a" [] c = "B" -> "b" [] c = "C" -> "c" [] c = "D" -> "d"
    [] c = "E" -> "e" [] c = "F" -> "f" [] c = "G" -> "g" [] c = "H" -> "h"
    [] c = "I" -> "i" [] c = "J" -> "j" [] c = "K" -> "k" [] c = "L" -> "l"
    [] c = "M" -> "m" [] c = "N" -> "n" [] c = "O" -> "o" [] c = "P" -> "p"
    [] c = "Q" -> "q" [] c = "R" -> "r" [] c = "S" -> "s" [] c = "T" -> "t"
    [] c = "U" -> "u" [] c = "V" -> "v" [] c = "W" -> "w" [] c = "X" -> "x"
    [] c = "Y" -> "y" [] c = "Z" -> "z" [] OTHER -> c

ToLowerCase(s) == [k \in 1..Len(s) |-> LowerChar(s[k])]

\* the element of a singleton set: The({e : x \in {v}}) is e with x bound
\* to the value of v, computed once however often e uses x
The(S) == CHOOSE v \in S : TRUE
Min(a, b) == IF a <= b THEN a ELSE b
Max(a, b) == IF a >= b THEN a ELSE b
Abs(a) == IF a >= 0 THEN a ELSE -a

\* s.substring(from, to) for integer arguments: both are clamped to
\* [0, length] and swapped when from > to
Substring(s, from, to) ==
  LET a == Max(0, Min(Len(s), from))
      b == Max(0, Min(Len(s), to))
      lo == Min(a, b)
      hi == Max(a, b)
  IN  [k \in 1..(hi - lo) |-> s[lo + k]]

\* true iff pat occurs in s at offset p
OccursAt(s, pat, p) ==
  /\ p >= 0
  /\ p + Len(pat) <= Len(s)
  /\ \A k \in 1..Len(pat) : s[p + k] = pat[k]

\* s.indexOf(pat, from): least offset >= from where pat occurs, or -1
IndexOf(s, pat, from) ==
  LET f == Max(0, Min(Len(s), from))
      hits == {p \in f..Len(s) : OccursAt(s, pat, p)}
  IN  IF hits = {} THEN -1 ELSE CHOOSE p \in hits : \A q \in hits : p <= q

\* s.includes(pat)
Includes(s, pat) == IndexOf(s, pat, 0) # -1

\* s.trim(), with the offsets of the kept slice
TrimStart(s) ==
  LET ks == {k \in 1..Len(s) : s[k] \notin Whitespace}
  IN  IF ks = {} THEN Len(s) ELSE (CHOOSE k \in ks : \A j \in ks : k <= j) - 1
TrimEnd(s) ==
  LET ks == {k \in 1..Len(s) : s[k] \notin Whitespace}
  IN  IF ks = {} THEN Len(s) ELSE CHOOSE k \in ks : \A j \in ks : k >= j
Trim(s) == Substring(s, TrimStart(s), TrimEnd(s))

----------------------------------------------------------------------------
(* Regular expressions.  A pattern is a tree of records; Ends(r, t, p) is  *)
(* the sequence of offsets at which a match of r starting at offset p of t *)
(* can end, in the order a backtracking matcher tries them (greedy         *)
(* quantifiers take the longest repetition first, alternatives are tried   *)
(* left to right), so its head is the end of the match JavaScript reports. *)

Lit(s) == [op |-> "lit", s |-> s]
Chr(set) == [op |-> "chr", set |-> set]
NotChr(set) == [op |-> "notchr", set |-> set]
Cat(rs) == [op |-> "cat", rs |-> rs]
Alt(rs) == [op |-> "alt", rs |-> rs]
Star(r) == [op |-> "star", r |-> r]
Plus(r) == [op |-> "plus", r |-> r]
Opt(r) == [op |-> "opt", r |-> r]
Cap(k, r) == r
WB == [op |-> "wb"]
\* ^ without the m flag: the start of the input
Bol == [op |-> "bol"]
\* ^ and $ under the flag m
BolM == [op |-> "bolm"]
EolM == [op |-> "eolm"]

IsWordAt(t, p) == p >= 0 /\ p < Len(t) /\ t[p + 1] \in WordChars
\* \b: exactly one side of offset p is a word character
WordBoundary(t, p) == IsWordAt(t, p - 1) # IsWordAt(t, p)

RECURSIVE Flatten(_)
Flatten(ss) == IF ss = <<>> THEN <<>> ELSE Head(ss) \o Flatten(Tail(ss))

RECURSIVE Ends(_, _, _)
Ends(r, t, p) ==
  CASE r.op = "lit" -> IF OccursAt(t, r.s, p) THEN <<p + Len(r.s)>> ELSE <<>>
    [] r.op = "chr" ->
         IF p < Len(t) /\ t[p + 1] \in r.set THEN <<p + 1>> ELSE <<>>
    [] r.op = "notchr" ->
         IF p < Len(t) /\ t[p + 1] \notin r.set THEN <<p + 1>> ELSE <<>>
    [] r.op = "wb" -> IF WordBoundary(t, p) THEN <<p>> ELSE <<>>
    [] r.op = "bol" -> IF p = 0 THEN <<p>> ELSE <<>>
    [] r.op = "bolm" -> IF p = 0 \/ t[p] = "\n" THEN <<p>> ELSE <<>>
    [] r.op = "eolm" -> IF p = Len(t) \/ t[p + 1] = "\n" THEN <<p>> ELSE <<>>
    [] r.op = "alt" -> Flatten([k \in 1..Len(r.rs) |-> Ends(r.rs[k], t, p)])
    [] r.op = "cat" ->
         IF r.rs = <<>> THEN <<p>>
         ELSE LET first == Ends(Head(r.rs), t, p)
              IN  Flatten([k \in 1..Len(first) |->
                             Ends(Cat(Tail(r.rs)), t, first[k])])
    [] r.op = "opt" -> Ends(r.r, t, p) \o <<p>>
    [] r.op = "star" ->
         \* r.r is a character class (every starred item of the source is):
         \* the longest run first, then ever shorter ones
         LET stops == {q \in p..Len(t) : q = Len(t) \/ Ends(r.r, t, q) = <<>>}
             last == CHOOSE q \in stops : \A q2 \in stops : q <= q2
         IN  [k \in 1..(last - p + 1) |-> last - k + 1]
    [] r.op = "plus" -> Ends(Cat(<<r.r, Star(r.r)>>), t, p)

\* The first match of r in t at or after offset from: its start offset
\* (index) and end offset, or index = -1 when there is none.
NoMatch == [index |-> -1, end |-> -1]
SearchFrom(r, t, from) ==
  LET starts == {p \in from..Len(t) : Ends(r, t, p) # <<>>}
      index == CHOOSE p \in starts : \A q \in starts : p <= q
  IN  IF starts = {} THEN NoMatch
      ELSE [index |-> index, end |-> Head(Ends(r, t, index))]

\* All matches of a global pattern (String.prototype.match with /g,
\* matchAll, split): after a match the search resumes at its end, one
\* further on after an empty match. starts holds the offsets at which the
\* pattern matches.
RECURSIVE MatchAllFrom(_, _, _, _)
MatchAllFrom(r, t, from, starts) ==
  IF \A p \in starts : p < from THEN <<>>
  ELSE The({<<[index |-> index, end |-> end]>>
              \o MatchAllFrom(r, t, IF end = index THEN end + 1 ELSE end, starts) :
            <<index, end>> \in
              {The({<<p, Head(Ends(r, t, p))>> :
                    p \in {CHOOSE p \in starts :
                             p >= from /\ \A q \in starts : q >= from => p <= q}})}})
MatchAll(r, t) ==
  The({MatchAllFrom(r, t, 0, starts) : starts \in {{p \in 0..Len(t) : Ends(r, t, p) # <<>>}}})

\* RegExp.prototype.test on a fresh pattern
RegexTest(r, t) == SearchFrom(r, t, 0).index # -1
----------------------------------------------------------------------------
(* PatternMatcher (parser/textAnalyzer.ts)                                 *)

SectionTypes == <<"role", "task", "constraints", "examples", "outputFormat">>
\* PatternMatcher.patterns.role
RolePatterns == <<
  \* /you\s+are\s+(?:a|an)?\s*([^.!?]*)/gi
  Cat(<<Lit(<<"y", "o", "u">>), Plus(Chr(Whitespace)), Lit(<<"a", "r", "e">>),
      Plus(Chr(Whitespace)), Opt(Alt(<<Lit(<<"a">>), Lit(<<"a", "n">>)>>)), Star(Chr(Whitespace)),
      Cap(1, Star(NotChr({".", "!", "?"})))>>),
  \* /act\s+as\s+(?:a|an)?\s*([^.!?]*)/gi
  Cat(<<Lit(<<"a", "c", "t">>), Plus(Chr(Whitespace)), Lit(<<"a", "s">>), Plus(Chr(Whitespace)),
      Opt(Alt(<<Lit(<<"a">>), Lit(<<"a", "n">>)>>)), Star(Chr(Whitespace)), Cap(1, Star(NotChr({".",
      "!", "?"})))>>),
  \* /assume\s+(?:the\s+)?role\s+of\s+(?:a|an)?\s*([^.!?]*)/gi
  Cat(<<Lit(<<"a", "s", "s", "u", "m", "e">>), Plus(Chr(Whitespace)), Opt(Cat(<<Lit(<<"t", "h",
      "e">>), Plus(Chr(Whitespace))>>)), Lit(<<"r", "o", "l", "e">>), Plus(Chr(Whitespace)),
      Lit(<<"o", "f">>), Plus(Chr(Whitespace)), Opt(Alt(<<Lit(<<"a">>), Lit(<<"a", "n">>)>>)),
      Star(Chr(Whitespace)), Cap(1, Star(NotChr({".", "!", "?"})))>>),
  \* /as\s+(?:a|an)\s+([^,.\n]*)/gi
  Cat(<<Lit(<<"a", "s">>), Plus(Chr(Whitespace)), Alt(<<Lit(<<"a">>), Lit(<<"a", "n">>)>>),
      Plus(Chr(Whitespace)), Cap(1, Star(NotChr({",", ".", "\n"})))>>),
  \* /take\s+on\s+the\s+persona\s+of\s*([^.!?]*)/gi
  Cat(<<Lit(<<"t", "a", "k", "e">>), Plus(Chr(Whitespace)), Lit(<<"o", "n">>),
      Plus(Chr(Whitespace)), Lit(<<"t", "h", "e">>), Plus(Chr(Whitespace)), Lit(<<"p", "e", "r",
      "s", "o", "n", "a">>), Plus(Chr(Whitespace)), Lit(<<"o", "f">>), Star(Chr(Whitespace)), Cap(1,
      Star(NotChr({".", "!", "?"})))>>),
  \* /your\s+role\s+is\s+(?:to\s+)?([^.!?]*)/gi
  Cat(<<Lit(<<"y", "o", "u", "r">>), Plus(Chr(Whitespace)), Lit(<<"r", "o", "l", "e">>),
      Plus(Chr(Whitespace)), Lit(<<"i", "s">>), Plus(Chr(Whitespace)), Opt(Cat(<<Lit(<<"t", "o">>),
      Plus(Chr(Whitespace))>>)), Cap(1, Star(NotChr({".", "!", "?"})))>>),
  \* /you\s+will\s+be\s+acting\s+as\s*([^.!?]*)/gi
  Cat(<<Lit(<<"y", "o", "u">>), Plus(Chr(Whitespace)), Lit(<<"w", "i", "l", "l">>),
      Plus(Chr(Whitespace)), Lit(<<"b", "e">>), Plus(Chr(Whitespace)), Lit(<<"a", "c", "t", "i",
      "n", "g">>), Plus(Chr(Whitespace)), Lit(<<"a", "s">>), Star(Chr(Whitespace)), Cap(1,
      Star(NotChr({".", "!", "?"})))>>)
>>

\* PatternMatcher.patterns.task
TaskPatterns == <<
  \* /(?:please\s+)?(analyze|create|generate|summarize|write|develop|design|build|implement|explain|describe|compare|evaluate|assess|review)\s+([^.!?]*)/gi
  Cat(<<Opt(Cat(<<Lit(<<"p", "l", "e", "a", "s", "e">>), Plus(Chr(Whitespace))>>)), Cap(1,
      Alt(<<Lit(<<"a", "n", "a", "l", "y", "z", "e">>), Lit(<<"c", "r", "e", "a", "t", "e">>),
      Lit(<<"g", "e", "n", "e", "r", "a", "t", "e">>), Lit(<<"s", "u", "m", "m", "a", "r", "i", "z",
      "e">>), Lit(<<"w", "r", "i", "t", "e">>), Lit(<<"d", "e", "v", "e", "l", "o", "p">>),
      Lit(<<"d", "e", "s", "i", "g", "n">>), Lit(<<"b", "u", "i", "l", "d">>), Lit(<<"i", "m", "p",
      "l", "e", "m", "e", "n", "t">>), Lit(<<"e", "x", "p", "l", "a", "i", "n">>), Lit(<<"d", "e",
      "s", "c", "r", "i", "b", "e">>), Lit(<<"c", "o", "m", "p", "a", "r", "e">>), Lit(<<"e", "v",
      "a", "l", "u", "a", "t", "e">>), Lit(<<"a", "s", "s", "e", "s", "s">>), Lit(<<"r", "e", "v",
      "i", "e", "w">>)>>)), Plus(Chr(Whitespace)), Cap(2, Star(NotChr({".", "!", "?"})))>>),
  \* /your\s+task\s+is\s+to\s+([^.!?]*)/gi
  Cat(<<Lit(<<"y", "o", "u", "r">>), Plus(Chr(Whitespace)), Lit(<<"t", "a", "s", "k">>),
      Plus(Chr(Whitespace)), Lit(<<"i", "s">>), Plus(Chr(Whitespace)), Lit(<<"t", "o">>),
      Plus(Chr(Whitespace)), Cap(1, Star(NotChr({".", "!", "?"})))>>),
  \* /i\s+need\s+you\s+to\s+([^.!?]*)/gi
  Cat(<<Lit(<<"i">>), Plus(Chr(Whitespace)), Lit(<<"n", "e", "e", "d">>), Plus(Chr(Whitespace)),
      Lit(<<"y", "o", "u">>), Plus(Chr(Whitespace)), Lit(<<"t", "o">>), Plus(Chr(Whitespace)),
      Cap(1, Star(NotChr({".", "!", "?"})))>>),
  \* /(?:can\s+you\s+)?(?:help\s+me\s+)?([^.!?]*\b(?:analyze|create|generate|write|develop|design|build|implement)\b[^.!?]*)/gi
  Cat(<<Opt(Cat(<<Lit(<<"c", "a", "n">>), Plus(Chr(Whitespace)), Lit(<<"y", "o", "u">>),
      Plus(Chr(Whitespace))>>)), Opt(Cat(<<Lit(<<"h", "e", "l", "p">>), Plus(Chr(Whitespace)),
      Lit(<<"m", "e">>), Plus(Chr(Whitespace))>>)), Cap(1, Cat(<<Star(NotChr({".", "!", "?"})), WB,
      Alt(<<Lit(<<"a", "n", "a", "l", "y", "z", "e">>), Lit(<<"c", "r", "e", "a", "t", "e">>),
      Lit(<<"g", "e", "n", "e", "r", "a", "t", "e">>), Lit(<<"w", "r", "i", "t", "e">>), Lit(<<"d",
      "e", "v", "e", "l", "o", "p">>), Lit(<<"d", "e", "s", "i", "g", "n">>), Lit(<<"b", "u", "i",
      "l", "d">>), Lit(<<"i", "m", "p", "l", "e", "m", "e", "n", "t">>)>>), WB, Star(NotChr({".",
      "!", "?"}))>>))>>),
  \* /complete\s+the\s+following\s+([^.!?]*)/gi
  Cat(<<Lit(<<"c", "o", "m", "p", "l", "e", "t", "e">>), Plus(Chr(Whitespace)), Lit(<<"t", "h",
      "e">>), Plus(Chr(Whitespace)), Lit(<<"f", "o", "l", "l", "o", "w", "i", "n", "g">>),
      Plus(Chr(Whitespace)), Cap(1, Star(NotChr({".", "!", "?"})))>>)
>>

\* PatternMatcher.patterns.constraints
ConstraintsPatterns == <<
  \* /(?:don't|do\s+not|avoid|never|must\s+not)\s+([^.!?]*)/gi
  Cat(<<Alt(<<Lit(<<"d", "o", "n", "'", "t">>), Cat(<<Lit(<<"d", "o">>), Plus(Chr(Whitespace)),
      Lit(<<"n", "o", "t">>)>>), Lit(<<"a", "v", "o", "i", "d">>), Lit(<<"n", "e", "v", "e", "r">>),
      Cat(<<Lit(<<"m", "u", "s", "t">>), Plus(Chr(Whitespace)), Lit(<<"n", "o", "t">>)>>)>>),
      Plus(Chr(Whitespace)), Cap(1, Star(NotChr({".", "!", "?"})))>>),
  \* /within\s+(\d+)\s+(words?|characters?|sentences?|paragraphs?)/gi
  Cat(<<Lit(<<"w", "i", "t", "h", "i", "n">>), Plus(Chr(Whitespace)), Cap(1, Plus(Chr(Digits))),
      Plus(Chr(Whitespace)), Cap(2, Alt(<<Cat(<<Lit(<<"w", "o", "r", "d">>), Opt(Chr({"s"}))>>),
      Cat(<<Lit(<<"c", "h", "a", "r", "a", "c", "t", "e", "r">>), Opt(Chr({"s"}))>>),
      Cat(<<Lit(<<"s", "e", "n", "t", "e", "n", "c", "e">>), Opt(Chr({"s"}))>>), Cat(<<Lit(<<"p",
      "a", "r", "a", "g", "r", "a", "p", "h">>), Opt(Chr({"s"}))>>)>>))>>),
  \* /no\s+more\s+than\s+([^.!?]*)/gi
  Cat(<<Lit(<<"n", "o">>), Plus(Chr(Whitespace)), Lit(<<"m", "o", "r", "e">>),
      Plus(Chr(Whitespace)), Lit(<<"t", "h", "a", "n">>), Plus(Chr(Whitespace)), Cap(1,
      Star(NotChr({".", "!", "?"})))>>),
  \* /maximum\s+of?\s+([^.!?]*)/gi
  Cat(<<Lit(<<"m", "a", "x", "i", "m", "u", "m">>), Plus(Chr(Whitespace)), Lit(<<"o">>),
      Opt(Chr({"f"})), Plus(Chr(Whitespace)), Cap(1, Star(NotChr({".", "!", "?"})))>>),
  \* /(?:only\s+use|stick\s+to|ensure\s+that|make\s+sure)\s+([^.!?]*)/gi
  Cat(<<Alt(<<Cat(<<Lit(<<"o", "n", "l", "y">>), Plus(Chr(Whitespace)), Lit(<<"u", "s", "e">>)>>),
      Cat(<<Lit(<<"s", "t", "i", "c", "k">>), Plus(Chr(Whitespace)), Lit(<<"t", "o">>)>>),
      Cat(<<Lit(<<"e", "n", "s", "u", "r", "e">>), Plus(Chr(Whitespace)), Lit(<<"t", "h", "a",
      "t">>)>>), Cat(<<Lit(<<"m", "a", "k", "e">>), Plus(Chr(Whitespace)), Lit(<<"s", "u", "r",
      "e">>)>>)>>), Plus(Chr(Whitespace)), Cap(1, Star(NotChr({".", "!", "?"})))>>),
  \* /(?:requirements?|constraints?|limitations?|restrictions?):\s*([^.!?]*)/gi
  Cat(<<Alt(<<Cat(<<Lit(<<"r", "e", "q", "u", "i", "r", "e", "m", "e", "n", "t">>),
      Opt(Chr({"s"}))>>), Cat(<<Lit(<<"c", "o", "n", "s", "t", "r", "a", "i", "n", "t">>),
      Opt(Chr({"s"}))>>), Cat(<<Lit(<<"l", "i", "m", "i", "t", "a", "t", "i", "o", "n">>),
      Opt(Chr({"s"}))>>), Cat(<<Lit(<<"r", "e", "s", "t", "r", "i", "c", "t", "i", "o", "n">>),
      Opt(Chr({"s"}))>>)>>), Lit(<<":">>), Star(Chr(Whitespace)), Cap(1, Star(NotChr({".", "!",
      "?"})))>>),
  \* /keep\s+it\s+(simple|brief|concise|short|under\s+\d+)/gi
  Cat(<<Lit(<<"k", "e", "e", "p">>), Plus(Chr(Whitespace)), Lit(<<"i", "t">>),
      Plus(Chr(Whitespace)), Cap(1, Alt(<<Lit(<<"s", "i", "m", "p", "l", "e">>), Lit(<<"b", "r",
      "i", "e", "f">>), Lit(<<"c", "o", "n", "c", "i", "s", "e">>), Lit(<<"s", "h", "o", "r",
      "t">>), Cat(<<Lit(<<"u", "n", "d", "e", "r">>), Plus(Chr(Whitespace)),
      Plus(Chr(Digits))>>)>>))>>)
>>

\* PatternMatcher.patterns.examples
ExamplesPatterns == <<
  \* /(?:for\s+example|example|such\s+as|like|including)\s*:?\s*([^.!?]*)/gi
  Cat(<<Alt(<<Cat(<<Lit(<<"f", "o", "r">>), Plus(Chr(Whitespace)), Lit(<<"e", "x", "a", "m", "p",
      "l", "e">>)>>), Lit(<<"e", "x", "a", "m", "p", "l", "e">>), Cat(<<Lit(<<"s", "u", "c", "h">>),
      Plus(Chr(Whitespace)), Lit(<<"a", "s">>)>>), Lit(<<"l", "i", "k", "e">>), Lit(<<"i", "n", "c",
      "l", "u", "d", "i", "n", "g">>)>>), Star(Chr(Whitespace)), Opt(Chr({":"})),
      Star(Chr(Whitespace)), Cap(1, Star(NotChr({".", "!", "?"})))>>),
  \* /(?:input|output|sample):\s*([^.!?]*)/gi
  Cat(<<Alt(<<Lit(<<"i", "n", "p", "u", "t">>), Lit(<<"o", "u", "t", "p", "u", "t">>), Lit(<<"s",
      "a", "m", "p", "l", "e">>)>>), Lit(<<":">>), Star(Chr(Whitespace)), Cap(1, Star(NotChr({".",
      "!", "?"})))>>),
  \* /(?:here's?\s+an?\s+example|consider\s+this\s+example)\s*:?\s*([^.!?]*)/gi
  Cat(<<Alt(<<Cat(<<Lit(<<"h", "e", "r", "e", "'">>), Opt(Chr({"s"})), Plus(Chr(Whitespace)),
      Lit(<<"a">>), Opt(Chr({"n"})), Plus(Chr(Whitespace)), Lit(<<"e", "x", "a", "m", "p", "l",
      "e">>)>>), Cat(<<Lit(<<"c", "o", "n", "s", "i", "d", "e", "r">>), Plus(Chr(Whitespace)),
      Lit(<<"t", "h", "i", "s">>), Plus(Chr(Whitespace)), Lit(<<"e", "x", "a", "m", "p", "l",
      "e">>)>>)>>), Star(Chr(Whitespace)), Opt(Chr({":"})), Star(Chr(Whitespace)), Cap(1,
      Star(NotChr({".", "!", "?"})))>>),
  \* /example\s+\d+\s*:?\s*([^.!?]*)/gi
  Cat(<<Lit(<<"e", "x", "a", "m", "p", "l", "e">>), Plus(Chr(Whitespace)), Plus(Chr(Digits)),
      Star(Chr(Whitespace)), Opt(Chr({":"})), Star(Chr(Whitespace)), Cap(1, Star(NotChr({".", "!",
      "?"})))>>),
  \* /(?:first|second|third)\s+example\s*:?\s*([^.!?]*)/gi
  Cat(<<Alt(<<Lit(<<"f", "i", "r", "s", "t">>), Lit(<<"s", "e", "c", "o", "n", "d">>), Lit(<<"t",
      "h", "i", "r", "d">>)>>), Plus(Chr(Whitespace)), Lit(<<"e", "x", "a", "m", "p", "l", "e">>),
      Star(Chr(Whitespace)), Opt(Chr({":"})), Star(Chr(Whitespace)), Cap(1, Star(NotChr({".", "!",
      "?"})))>>)
>>

\* PatternMatcher.patterns.outputFormat
OutputFormatPatterns == <<
  \* /(?:format|structure|output)\s+(?:should\s+be|as|in)\s+([^.!?]*)/gi
  Cat(<<Alt(<<Lit(<<"f", "o", "r", "m", "a", "t">>), Lit(<<"s", "t", "r", "u", "c", "t", "u", "r",
      "e">>), Lit(<<"o", "u", "t", "p", "u", "t">>)>>), Plus(Chr(Whitespace)),
      Alt(<<Cat(<<Lit(<<"s", "h", "o", "u", "l", "d">>), Plus(Chr(Whitespace)), Lit(<<"b",
      "e">>)>>), Lit(<<"a", "s">>), Lit(<<"i", "n">>)>>), Plus(Chr(Whitespace)), Cap(1,
      Star(NotChr({".", "!", "?"})))>>),
  \* /(json|xml|csv|markdown|html|yaml|table)\s+format/gi
  Cat(<<Cap(1, Alt(<<Lit(<<"j", "s", "o", "n">>), Lit(<<"x", "m", "l">>), Lit(<<"c", "s", "v">>),
      Lit(<<"m", "a", "r", "k", "d", "o", "w", "n">>), Lit(<<"h", "t", "m", "l">>), Lit(<<"y", "a",
      "m", "l">>), Lit(<<"t", "a", "b", "l", "e">>)>>)), Plus(Chr(Whitespace)), Lit(<<"f", "o", "r",
      "m", "a", "t">>)>>),
  \* /respond\s+(?:with|in|using)\s+([^.!?]*)/gi
  Cat(<<Lit(<<"r", "e", "s", "p", "o", "n", "d">>), Plus(Chr(Whitespace)), Alt(<<Lit(<<"w", "i",
      "t", "h">>), Lit(<<"i", "n">>), Lit(<<"u", "s", "i", "n", "g">>)>>), Plus(Chr(Whitespace)),
      Cap(1, Star(NotChr({".", "!", "?"})))>>),
  \* /(?:bullet\s+points|numbered\s+list|table\s+format)/gi
  Alt(<<Cat(<<Lit(<<"b", "u", "l", "l", "e", "t">>), Plus(Chr(Whitespace)), Lit(<<"p", "o", "i",
      "n", "t", "s">>)>>), Cat(<<Lit(<<"n", "u", "m", "b", "e", "r", "e", "d">>),
      Plus(Chr(Whitespace)), Lit(<<"l", "i", "s", "t">>)>>), Cat(<<Lit(<<"t", "a", "b", "l", "e">>),
      Plus(Chr(Whitespace)), Lit(<<"f", "o", "r", "m", "a", "t">>)>>)>>),
  \* /(?:concise|detailed|step-by-step|structured)\s+(?:format|response)/gi
  Cat(<<Alt(<<Lit(<<"c", "o", "n", "c", "i", "s", "e">>), Lit(<<"d", "e", "t", "a", "i", "l", "e",
      "d">>), Lit(<<"s", "t", "e", "p", "-", "b", "y", "-", "s", "t", "e", "p">>), Lit(<<"s", "t",
      "r", "u", "c", "t", "u", "r", "e", "d">>)>>), Plus(Chr(Whitespace)), Alt(<<Lit(<<"f", "o",
      "r", "m", "a", "t">>), Lit(<<"r", "e", "s", "p", "o", "n", "s", "e">>)>>)>>),
  \* /present\s+(?:the\s+)?(?:results?|information|data)\s+(?:in|as|using)\s+([^.!?]*)/gi
  Cat(<<Lit(<<"p", "r", "e", "s", "e", "n", "t">>), Plus(Chr(Whitespace)), Opt(Cat(<<Lit(<<"t", "h",
      "e">>), Plus(Chr(Whitespace))>>)), Alt(<<Cat(<<Lit(<<"r", "e", "s", "u", "l", "t">>),
      Opt(Chr({"s"}))>>), Lit(<<"i", "n", "f", "o", "r", "m", "a", "t", "i", "o", "n">>), Lit(<<"d",
      "a", "t", "a">>)>>), Plus(Chr(Whitespace)), Alt(<<Lit(<<"i", "n">>), Lit(<<"a", "s">>),
      Lit(<<"u", "s", "i", "n", "g">>)>>), Plus(Chr(Whitespace)), Cap(1, Star(NotChr({".", "!",
      "?"})))>>)
>>


PatternsOf(type) ==
  CASE type = "role" -> RolePatterns
    [] type = "task" -> TaskPatterns
    [] type = "constraints" -> ConstraintsPatterns
    [] type = "examples" -> ExamplesPatterns
    [] type = "outputFormat" -> OutputFormatPatterns

\* Scores are exact fractions.  A raw score computed on a text of length n
\* is kept as an integer numerator over the denominator ScoreDen(n) = 100 n,
\* so that coverage = matchLength / n and the 0.01-step bonuses are all
\* integers.
Hundredths == 100
ScoreDen(n) == Hundredths * n

ScoreKeywords ==
  <<<<"y", "o", "u", " ", "a", "r", "e">>, <<"a", "n", "a", "l", "y", "z", "e">>, <<"c", "r", "e",
      "a", "t", "e">>, <<"d", "o", "n", "'", "t">>, <<"e", "x", "a", "m", "p", "l", "e">>, <<"f",
      "o", "r", "m", "a", "t">>>>

\* PatternMatcher.calculatePatternScore: min(coverage * 2, 0.8), plus 0.2
\* for a keyword, capped at 1.0
calculatePatternScore(matched, text) ==
  LET n == Len(text)
      score == Min(2 * Hundredths * Len(matched), 80 * n)
      keywordBonus ==
        IF \E k \in 1..Len(ScoreKeywords) :
             Includes(ToLowerCase(matched), ScoreKeywords[k])
        THEN 20 * n ELSE 0
  IN  Min(score + keywordBonus, Hundredths * n)

\* the patterns.forEach loop of matchPatterns for one type: the first
\* pattern with the strictly highest score
NoBest == [maxScore |-> 0, index |-> -1, end |-> -1, pattern |-> 0]
RECURSIVE BestOfPatterns(_, _, _, _)
BestOfPatterns(pats, k, lowerText, best) ==
  IF k > Len(pats) THEN best
  ELSE LET m == SearchFrom(pats[k], lowerText, 0)
           score == calculatePatternScore(Substring(lowerText, m.index, m.end), lowerText)
       IN  IF m.index # -1 /\ score > best.maxScore
           THEN BestOfPatterns(pats, k + 1, lowerText,
                  [maxScore |-> score, index |-> m.index, end |-> m.end, pattern |-> k])
           ELSE BestOfPatterns(pats, k + 1, lowerText, best)

\* matches.sort((a, b) => b.confidence - a.confidence): a stable sort
RECURSIVE InsertByConfidence(_, _)
InsertByConfidence(sorted, m) ==
  IF sorted = <<>> THEN <<m>>
  ELSE IF Head(sorted).confidence >= m.confidence
       THEN <<Head(sorted)>> \o InsertByConfidence(Tail(sorted), m)
       ELSE <<m>> \o sorted
RECURSIVE SortByConfidence(_)
SortByConfidence(ms) ==
  IF ms = <<>> THEN <<>>
  ELSE InsertByConfidence(SortByConfidence(SubSeq(ms, 1, Len(ms) - 1)), ms[Len(ms)])

\* the acceptance floor of matchPatterns: maxScore > 0.3
AcceptFloor == 30

\* PatternMatcher.matchPatterns without its counter: the accepted best
\* match of every type, sorted by descending confidence
RECURSIVE MatchesFrom(_, _)
MatchesFrom(k, lowerText) ==
  IF k > Len(SectionTypes) THEN <<>>
  ELSE LET best == BestOfPatterns(PatternsOf(SectionTypes[k]), 1, lowerText, NoBest)
           matchedText == Substring(lowerText, best.index, best.end)
           start == IndexOf(lowerText, matchedText, 0)
       IN  (IF best.index # -1 /\ best.maxScore > AcceptFloor * Len(lowerText)
            THEN <<[type |-> SectionTypes[k],
                    confidence |-> best.maxScore,
                    den |-> ScoreDen(Len(lowerText)),
                    matchedText |-> matchedText,
                    matchedPatterns |-> <<<<SectionTypes[k], best.pattern>>>>,
                    startIndex |-> start,
                    endIndex |-> start + Len(matchedText)]>>
            ELSE <<>>)
           \o MatchesFrom(k + 1, lowerText)

\* a variant of matchPatterns that keeps the matches in category order
MatchesInCategoryOrder(text) == MatchesFrom(1, ToLowerCase(text))

matchPatterns(text) == SortByConfidence(MatchesFrom(1, ToLowerCase(text)))

AllTypes == {"role", "task", "constraints", "examples", "outputFormat", "unknown"}

\* a variant of BumpStats that counts the matches of the last call only
CountLastMatches(stats, matches) ==
  [c \in DOMAIN stats |-> Cardinality({k \in 1..Len(matches) : matches[k].type = c})]

\* this.patternStats[sectionType]++ for every match pushed
BumpStats(stats, matches) ==
  [c \in AllTypes |-> stats[c] + Cardinality({k \in 1..Len(matches) : matches[k].type = c})]

----------------------------------------------------------------------------
(* ContextAnalyzer (parser/textAnalyzer.ts): bonuses in hundredths         *)

ExpectedIndex(type) ==
  CASE type = "role" -> 0
    [] type = "task" -> 1
    [] type = "constraints" -> 2
    [] type = "examples" -> 3
    [] type = "outputFormat" -> 4
    [] OTHER -> -1

getSequenceBonus(type, blockIndex) ==
  IF ExpectedIndex(type) = -1 THEN 0
  ELSE Max(0, 10 - Abs(blockIndex - ExpectedIndex(type)) * 2)

\* new RegExp(`\\b${type}\\b`, 'gi'): the type's name as a whole word
TypeWord(type) ==
  CASE type = "role" -> Cat(<<WB, Lit(<<"r", "o", "l", "e">>), WB>>)
    [] type = "task" -> Cat(<<WB, Lit(<<"t", "a", "s", "k">>), WB>>)
    [] type = "constraints" -> Cat(<<WB, Lit(<<"c", "o", "n", "s", "t", "r", "a", "i", "n", "t",
        "s">>), WB>>)
    [] type = "examples" -> Cat(<<WB, Lit(<<"e", "x", "a", "m", "p", "l", "e", "s">>), WB>>)
    [] type = "outputFormat" -> Cat(<<WB, Lit(<<"o", "u", "t", "p", "u", "t", "f", "o", "r", "m",
        "a", "t">>), WB>>)
    [] OTHER -> Cat(<<WB, Lit(<<"u", "n", "k", "n", "o", "w", "n">>), WB>>)

getTypeConflictPenalty(type, fullText) ==
  LET typeOccurrences == Len(MatchAll(TypeWord(type), ToLowerCase(fullText)))
  IN  IF typeOccurrences > 1 THEN 5 * (typeOccurrences - 1) ELSE 0

getLengthBonus(type, length) ==
  LET min == CASE type = "role" -> 20 [] type = "task" -> 30
               [] type = "constraints" -> 20 [] type = "examples" -> 40
               [] type = "outputFormat" -> 15 [] OTHER -> 0
      max == CASE type = "role" -> 100 [] type = "task" -> 200
               [] type = "constraints" -> 150 [] type = "examples" -> 300
               [] type = "outputFormat" -> 80 [] OTHER -> length
  IN  IF length >= min /\ length <= max THEN 5 ELSE 0

\* Math.max(0, Math.min(1, confidence + sequenceBonus - penalty + lengthBonus)),
\* as a numerator over match.den
calculateContextualConfidence(match, blockText, fullText, blockIndex) ==
  LET adjust == getSequenceBonus(match.type, blockIndex)
                - getTypeConflictPenalty(match.type, fullText)
                + getLengthBonus(match.type, Len(blockText))
  IN  Max(0, Min(match.den, match.confidence + adjust * (match.den \div Hundredths)))

\* the loop of analyzeContext over one block's matches: the first match
\* with the strictly highest contextual confidence
RECURSIVE BestInContext(_, _, _, _, _, _)
BestInContext(ms, k, block, fullText, blockIndex, best) ==
  IF k > Len(ms) THEN best
  ELSE LET c == calculateContextualConfidence(ms[k], block.content, fullText, blockIndex)
       IN  IF k = 1 \/ c > best.confidence
           THEN BestInContext(ms, k + 1, block, fullText, blockIndex,
                  [hasMatch |-> TRUE, bestMatch |-> ms[k], confidence |-> c])
           ELSE BestInContext(ms, k + 1, block, fullText, blockIndex, best)

NoBestMatch == [hasMatch |-> FALSE, bestMatch |-> <<>>, confidence |-> 0]

\* ContextAnalyzer.analyzeContext without its counters
analyzeContext(patternMatches, fullText) ==
  [k \in 1..Len(patternMatches) |->
     LET pm == patternMatches[k]
         best == BestInContext(pm.matches, 1, pm.block, fullText, pm.blockIndex, NoBestMatch)
     IN  [block |-> pm.block, blockIndex |-> pm.blockIndex,
          hasMatch |-> best.hasMatch, bestMatch |-> best.bestMatch,
          confidence |-> best.confidence,
          den |-> IF best.hasMatch THEN best.bestMatch.den ELSE 1]]

\* ContextAnalyzer.analyzeWithContext
analyzeWithContext(text, before, after, patterns) ==
  IF Len(patterns) = 0
  THEN [suggestedType |-> "none", confidence |-> 0, den |-> 1, matchedPatterns |-> <<>>]
  ELSE LET bestPattern == patterns[1]
       IN  [suggestedType |-> bestPattern.type,
            confidence |-> calculateContextualConfidence(bestPattern, text,
                             before \o text \o after, 0),
            den |-> bestPattern.den,
            matchedPatterns |-> bestPattern.matchedPatterns]

----------------------------------------------------------------------------
(* TextAnalyzer (parser/textAnalyzer.ts)                                   *)

\* Math.round(num / den) for num >= 0: halves round up
RoundDiv(num, den) == (2 * num + den) \div (2 * den)

\* s.split(pattern) for a pattern that matches no empty string
RECURSIVE PiecesFrom(_, _, _)
PiecesFrom(s, ms, prev) ==
  IF ms = <<>> THEN <<Substring(s, prev, Len(s))>>
  ELSE <<Substring(s, prev, Head(ms).index)>> \o PiecesFrom(s, Tail(ms), Head(ms).end)
SplitByPattern(s, r) == PiecesFrom(s, MatchAll(r, s), 0)

ParagraphBreak == Cat(<<Lit(<<"\n">>), Star(Chr(Whitespace)), Lit(<<"\n">>)>>)
SentenceBreak == Cat(<<Plus(Chr({".", "!", "?"})), Plus(Chr(Whitespace))>>)

\* the forEach of splitIntoBlocks and of splitBySentences: every non-blank
\* piece, trimmed, located by indexOf from the end of the previous block
RECURSIVE BlocksOf(_, _, _)
BlocksOf(text, pieces, currentIndex) ==
  IF pieces = <<>> THEN <<>>
  ELSE LET trimmed == Trim(Head(pieces))
           startIndex == IndexOf(text, trimmed, currentIndex)
           endIndex == startIndex + Len(trimmed)
       IN  IF trimmed = <<>> THEN BlocksOf(text, Tail(pieces), currentIndex)
           ELSE <<[content |-> trimmed, startIndex |-> startIndex, endIndex |-> endIndex]>>
                \o BlocksOf(text, Tail(pieces), endIndex)

splitBySentences(text) == BlocksOf(text, SplitByPattern(text, SentenceBreak), 0)

\* the text length above which a single paragraph is split by sentences
SentenceFallbackLength == 100

\* splitIntoBlocks without the length test of its sentence fallback
SplitShortParagraphs(text) ==
  LET blocks == BlocksOf(text, SplitByPattern(text, ParagraphBreak), 0)
  IN  IF Len(blocks) <= 1 THEN splitBySentences(text) ELSE blocks

splitIntoBlocks(text) ==
  LET blocks == BlocksOf(text, SplitByPattern(text, ParagraphBreak), 0)
  IN  IF Len(blocks) <= 1 /\ Len(text) > SentenceFallbackLength
      THEN splitBySentences(text)
      ELSE blocks

\* Section offsets are kept in units of 1/IndexScale of a character, since
\* boundary expansion moves them by half of a span length.
IndexScale == 2
ToOffset(i) == i \div IndexScale

\* TextAnalyzer.generateDetectedSections
generateDetectedSections(contextualMatches) ==
  LET kept == SelectSeq(contextualMatches, LAMBDA m : m.hasMatch)
  IN  [k \in 1..Len(kept) |->
         [id |-> <<"section", k - 1>>,
          type |-> kept[k].bestMatch.type,
          content |-> kept[k].block.content,
          confidence |-> RoundDiv(kept[k].confidence * Hundredths, kept[k].den),
          startIndex |-> IndexScale * kept[k].block.startIndex,
          endIndex |-> IndexScale * kept[k].block.endIndex,
          patterns |-> kept[k].bestMatch.matchedPatterns,
          blockIndex |-> kept[k].blockIndex]]

RECURSIVE SumConfidence(_)
SumConfidence(sections) ==
  IF sections = <<>> THEN 0
  ELSE Head(sections).confidence + SumConfidence(Tail(sections))

TypesIn(sections) == {sections[k].type : k \in 1..Len(sections)}

\* TextAnalyzer.calculateOverallConfidence
calculateOverallConfidence(sections) ==
  IF Len(sections) = 0 THEN 0
  ELSE LET diversityBonus == Min(Cardinality(TypesIn(sections)) * 5, 20)
       IN  Min(RoundDiv(SumConfidence(sections) + diversityBonus * Len(sections),
                        Len(sections)), 100)

IsBlank(text) == Trim(text) = <<>>

\* the steps of analyzeText's try block, any of which may throw
AnalysisSteps ==
  {"splitIntoBlocks", "matchPatterns", "analyzeContext",
   "generateDetectedSections", "calculateOverallConfidence"}

\* the pattern matches of every block (step 2 of analyzeText)
BlockMatches(text) ==
  LET blocks == splitIntoBlocks(text)
  IN  [k \in 1..Len(blocks) |->
         [block |-> blocks[k], blockIndex |-> k - 1,
          matches |-> matchPatterns(blocks[k].content)]]

AnalysisError ==
  [type |-> "analysis_error", severity |-> "error"]

\* a variant of AnalyzeFrom whose catch block reports no error
AnalyzeFromSilent(blockMatches, text, fault) ==
  IF IsBlank(text) \/ fault \in AnalysisSteps
  THEN [sections |-> <<>>, confidence |-> 0, errors |-> <<>>]
  ELSE The({[sections |-> sections,
             confidence |-> calculateOverallConfidence(sections),
             errors |-> <<>>] :
            sections \in {generateDetectedSections(analyzeContext(blockMatches, text))}})

\* steps 3 to 6 of analyzeText from the matches of step 2; fault names the
\* step of the try block that throws, or is "none". A blank text returns
\* before the try block.
AnalyzeFrom(blockMatches, text, fault) ==
  IF IsBlank(text)
  THEN [sections |-> <<>>, confidence |-> 0, errors |-> <<>>]
  ELSE IF fault \in AnalysisSteps
       THEN [sections |-> <<>>, confidence |-> 0, errors |-> <<AnalysisError>>]
       ELSE The({[sections |-> sections,
                  confidence |-> calculateOverallConfidence(sections),
                  errors |-> <<>>] :
                 sections \in {generateDetectedSections(analyzeContext(blockMatches, text))}})

\* TextAnalyzer.analyzeText
analyzeText(text, fault) ==
  The({AnalyzeFrom(blockMatches, text, fault) : blockMatches \in {BlockMatches(text)}})


\* TextAnalyzer.reanalyzeSectionWithContext, without the feedback it records
ContextWindow == 200
SectionText(section, fullText) ==
  Substring(fullText, ToOffset(section.startIndex), ToOffset(section.endIndex))

\* a variant of ReanalyzeFrom that takes the type of the last match, the
\* weakest, in place of the first
ReanalyzeFromWeakest(section, fullText, patterns) ==
  IF patterns = <<>> THEN section
  ELSE [section EXCEPT !.type = patterns[Len(patterns)].type]

\* the section reanalyzeSectionWithContext returns, from the matches of
\* the section's text
ReanalyzeFrom(section, fullText, patterns) ==
  LET start == ToOffset(section.startIndex)
      end == ToOffset(section.endIndex)
      contextBefore == Substring(fullText, Max(0, start - ContextWindow), start)
      contextAfter == Substring(fullText, end, Min(Len(fullText), end + ContextWindow))
  IN  The({[section EXCEPT
              !.type = IF contextualAnalysis.suggestedType = "none"
                       THEN section.type ELSE contextualAnalysis.suggestedType,
              !.confidence = RoundDiv(contextualAnalysis.confidence * Hundredths,
                                      contextualAnalysis.den),
              !.patterns = contextualAnalysis.matchedPatterns] :
            contextualAnalysis \in
              {analyzeWithContext(SectionText(section, fullText), contextBefore,
                                  contextAfter, patterns)}})

reanalyzeSectionWithContext(section, fullText) ==
  The({ReanalyzeFrom(section, fullText, patterns) :
       patterns \in {matchPatterns(SectionText(section, fullText))}})

----------------------------------------------------------------------------
(* SectionExtractor (parser/sectionExtractor.ts)                           *)

\* /[.!?]\s+/, which the boundary loops test against a single character
TerminatorThenSpace == Cat(<<Chr({".", "!", "?"}), Plus(Chr(Whitespace))>>)
CharAt(text, p) == IF p >= 0 /\ p < Len(text) THEN <<text[p + 1]>> ELSE <<>>

\* while (newStart > 0 && !test(text.charAt(newStart - 1))) newStart--
ScanBack(text, start) ==
  LET stops == {q \in 0..start : q = 0 \/ RegexTest(TerminatorThenSpace, CharAt(text, q - 1))}
  IN  CHOOSE q \in stops : \A q2 \in stops : q >= q2

\* while (newEnd < text.length && !test(text.charAt(newEnd))) newEnd++
ScanForward(text, end) ==
  LET stops == {q \in end..Len(text) :
                  q = Len(text) \/ RegexTest(TerminatorThenSpace, CharAt(text, q))}
  IN  CHOOSE q \in stops : \A q2 \in stops : q <= q2

\* one section of expandSectionBoundaries: maxExpansion is half the
\* original length
ExpandSection(section, text) ==
  LET scanStart == IndexScale * ScanBack(text, ToOffset(section.startIndex))
      scanEnd == IndexScale * ScanForward(text, ToOffset(section.endIndex))
      originalLength == section.endIndex - section.startIndex
      maxExpansion == originalLength \div 2
      newStart == Max(scanStart, section.startIndex - maxExpansion)
      newEnd == Min(scanEnd, section.endIndex + maxExpansion)
  IN  [section EXCEPT
         !.content = Trim(Substring(text, ToOffset(newStart), ToOffset(newEnd))),
         !.startIndex = newStart,
         !.endIndex = newEnd]

RECURSIVE expandSectionBoundaries(_, _)
expandSectionBoundaries(sections, text) ==
  IF sections = <<>> THEN <<>>
  ELSE <<ExpandSection(Head(sections), text)>>
       \o expandSectionBoundaries(Tail(sections), text)

\* a variant of sectionsOverlap that only sees an overlap when the second
\* section starts inside the first
OverlapStartsInside(section1, section2) ==
  section1.startIndex <= section2.startIndex /\ section2.startIndex < section1.endIndex

sectionsOverlap(section1, section2) ==
  ~(section1.endIndex <= section2.startIndex \/ section2.endIndex <= section1.startIndex)

\* a variant of mergeSections that adds the confidences up
MergeAddingConfidence(section1, section2) ==
  [id |-> <<"merged", section1.id, section2.id>>,
   type |-> IF section1.confidence > section2.confidence
            THEN section1.type ELSE section2.type,
   content |-> section1.content \o <<" ">> \o section2.content,
   confidence |-> section1.confidence + section2.confidence,
   startIndex |-> Min(section1.startIndex, section2.startIndex),
   endIndex |-> Max(section1.endIndex, section2.endIndex),
   patterns |-> section1.patterns \o section2.patterns,
   blockIndex |-> -1]

mergeSections(section1, section2) ==
  [id |-> <<"merged", section1.id, section2.id>>,
   type |-> IF section1.confidence > section2.confidence
            THEN section1.type ELSE section2.type,
   content |-> section1.content \o <<" ">> \o section2.content,
   confidence |-> RoundDiv(section1.confidence + section2.confidence, 2),
   startIndex |-> Min(section1.startIndex, section2.startIndex),
   endIndex |-> Max(section1.endIndex, section2.endIndex),
   patterns |-> section1.patterns \o section2.patterns,
   blockIndex |-> -1]

\* sections.sort((a, b) => a.startIndex - b.startIndex), a stable sort:
\* the section at position i is the one that i - 1 others precede
Before(ss, j, k) ==
  ss[j].startIndex < ss[k].startIndex \/ (ss[j].startIndex = ss[k].startIndex /\ j < k)
SortByStart(ss) ==
  The({<<>> \o [i \in 1..Len(s) |->
                  s[CHOOSE k \in 1..Len(s) :
                      Cardinality({j \in 1..Len(s) : Before(s, j, k)}) = i - 1]] :
       s \in {ss}})

\* the threshold below which two confidences count as similar
MergeGap == 10

\* the body of the outer loop of resolveOverlappingSections for one
\* section: the first resolved section it overlaps is replaced, merged or
\* kept; without an overlap the section is appended
ResolveOne(acc, current) ==
  LET hits == {j \in 1..Len(acc.sections) : sectionsOverlap(current, acc.sections[j])}
      j == CHOOSE j \in hits : \A j2 \in hits : j <= j2
      existing == acc.sections[j]
  IN  IF hits = {}
      THEN [sections |-> Append(acc.sections, current),
            overlapsResolved |-> acc.overlapsResolved]
      ELSE [sections |->
              IF current.confidence > existing.confidence
              THEN [acc.sections EXCEPT ![j] = current]
              ELSE IF current.type = existing.type
                      /\ Abs(current.confidence - existing.confidence) < MergeGap
                   THEN [acc.sections EXCEPT ![j] = mergeSections(current, existing)]
                   ELSE acc.sections,
            overlapsResolved |-> acc.overlapsResolved + 1]

\* the successive values of (resolved, overlapsResolved), one per
\* iteration of the outer loop, the initial empty one first
RECURSIVE ResolveSteps(_, _)
ResolveSteps(sortedSections, i) ==
  IF i = 0 THEN <<[sections |-> <<>>, overlapsResolved |-> 0]>>
  ELSE The({The({Append(before, after) :
                 after \in {ResolveOne(before[Len(before)], sortedSections[i])}}) :
            before \in {ResolveSteps(sortedSections, i - 1)}})

resolveOverlappingSections(sections) ==
  The({The({steps[Len(steps)] : steps \in {ResolveSteps(sortedSections, Len(sortedSections))}}) :
       sortedSections \in {SortByStart(sections)}})

\* limitSectionsPerType: the sections are grouped by type, the groups kept
\* in order of first appearance, each sorted by descending confidence
\* (stably) and cut to maxPerType. FirstOf is the index at which a
\* section's type first appears, RankInType the number of sections of its
\* group sorted before it.
FirstOf(s, k) ==
  CHOOSE j \in 1..k : s[j].type = s[k].type /\ \A i \in 1..(j - 1) : s[i].type # s[k].type
RankInType(s, k) ==
  Cardinality({j \in 1..Len(s) :
                 /\ s[j].type = s[k].type
                 /\ \/ s[j].confidence > s[k].confidence
                    \/ s[j].confidence = s[k].confidence /\ j < k})
LimitedBefore(s, j, k) ==
  \/ FirstOf(s, j) < FirstOf(s, k)
  \/ FirstOf(s, j) = FirstOf(s, k) /\ RankInType(s, j) < RankInType(s, k)
\* a variant of limitSectionsPerType that keeps the first sections of each
\* type as they stand, whatever their confidence
LimitWithoutRanking(sections, maxPerType) ==
  SelectSeq(<<>> \o [k \in 1..Len(sections) |->
                       IF Cardinality({j \in 1..(k - 1) : sections[j].type = sections[k].type})
                            < maxPerType
                       THEN sections[k] ELSE <<>>],
            LAMBDA section : section # <<>>)

limitSectionsPerType(sections, maxPerType) ==
  The({The({<<>> \o [i \in 1..Cardinality(kept) |->
                       s[CHOOSE k \in kept :
                           Cardinality({j \in kept : LimitedBefore(s, j, k)}) = i - 1]] :
            kept \in {{k \in 1..Len(s) : RankInType(s, k) < maxPerType}}}) :
       s \in {sections}})

countTextBlocks(text) ==
  LET paragraphs == SelectSeq(SplitByPattern(text, ParagraphBreak), LAMBDA p : Trim(p) # <<>>)
      sentences == SelectSeq(SplitByPattern(text, SentenceBreak), LAMBDA s : Trim(s) # <<>>)
  IN  IF Len(paragraphs) > 1 THEN Len(paragraphs) ELSE Len(sentences)

\* the steps of extractSections after the analysis, none of them guarded
ExtractionSteps ==
  {"expandSectionBoundaries", "resolveOverlappingSections", "limitSectionsPerType"}

DefaultOptions ==
  [minConfidenceThreshold |-> 30, resolveOverlaps |-> TRUE,
   preserveContext |-> TRUE, maxSectionsPerType |-> 3]

\* the ExtractionResult of extractSections, with the input of the overlap
\* scan (scanned), its successive lists (steps) and the list after the cap
\* per type (capped) kept to state properties of them
ExtractionResult(sections, scanned, steps, capped, overlapsResolved, text) ==
  [sections |-> sections,
   scanned |-> scanned,
   steps |-> steps,
   capped |-> capped,
   metadata |->
     [totalBlocks |-> countTextBlocks(text),
      processedBlocks |-> Len(sections),
      overlapsResolved |-> overlapsResolved,
      averageConfidence |->
        IF Len(sections) > 0
        THEN RoundDiv(SumConfidence(sections), Len(sections)) ELSE 0]]

\* the filter by minConfidenceThreshold and the boundary expansion
FilterAndExpand(analysisResult, text, options) ==
  The({IF options.preserveContext THEN expandSectionBoundaries(filtered, text) ELSE filtered :
       filtered \in {SelectSeq(analysisResult.sections,
                               LAMBDA s : s.confidence >= options.minConfidenceThreshold)}})

\* the cap per type and the final sort
LimitAndSort(expanded, scanned, steps, resolved, text, options) ==
  The({The({ExtractionResult(sections, scanned, steps, limited, resolved.overlapsResolved, text) :
            sections \in {SortByStart(limited)}}) :
       limited \in {limitSectionsPerType(resolved.sections, options.maxSectionsPerType)}})

\* SectionExtractor.extractSections, applied to the result of the analysis
ExtractFrom(analysisResult, text, options) ==
  The({IF options.resolveOverlaps
       THEN The({The({LimitAndSort(expanded, scanned, steps, steps[Len(steps)], text, options) :
                      steps \in {ResolveSteps(scanned, Len(scanned))}}) :
                 scanned \in {SortByStart(expanded)}})
       ELSE LimitAndSort(expanded, <<>>, <<>>,
                         [sections |-> expanded, overlapsResolved |-> 0], text, options) :
       expanded \in {FilterAndExpand(analysisResult, text, options)}})

\* SectionExtractor.extractSections
extractSections(text, options, fault) ==
  The({ExtractFrom(analysisResult, text, options) :
       analysisResult \in {analyzeText(text, fault)}})

\* the sections extractWithCustomPatterns builds from the matches of one
\* custom pattern; matching is case-insensitive, the content is the
\* matched slice of the text
CustomConfidence == 75
CustomSections(text, type, patternIndex, pattern) ==
  LET matches == MatchAll(pattern, ToLowerCase(text))
  IN  [k \in 1..Len(matches) |->
         [id |-> <<"custom", type, patternIndex, k - 1>>,
          type |-> type,
          content |-> Substring(text, matches[k].index, matches[k].end),
          confidence |-> CustomConfidence,
          startIndex |-> IndexScale * matches[k].index,
          endIndex |-> IndexScale * matches[k].end,
          patterns |-> <<<<"custom", patternIndex>>>>,
          blockIndex |-> -1]]

\* s.toLowerCase().split(/\s+/)
WordsOf(s) == SplitByPattern(ToLowerCase(s), Plus(Chr(Whitespace)))

\* SectionExtractor.calculateContentSimilarity on the word lists, as the
\* fraction common / total; the comparison with 0.8 is made on integers
SimilarityThresholdTenths == 8
SimilarWords(words1, words2) ==
  LET commonWords == SelectSeq(words1, LAMBDA w : \E k \in 1..Len(words2) : words2[k] = w)
      totalWords == Max(Len(words1), Len(words2))
  IN  totalWords > 0 /\ 10 * Len(commonWords) > SimilarityThresholdTenths * totalWords
TooSimilar(text1, text2) == SimilarWords(WordsOf(text1), WordsOf(text2))

\* the word list of every section's content
RECURSIVE WordLists(_)
WordLists(sections) ==
  IF sections = <<>> THEN <<>>
  ELSE <<WordsOf(Head(sections).content)>> \o WordLists(Tail(sections))

\* the for loop of deduplicateSections from section k on: the indices of
\* the sections kept, a section being dropped when its content is too
\* similar to that of one already kept
RECURSIVE DeduplicateFrom(_, _, _)
DeduplicateFrom(kept, k, words) ==
  IF k > Len(words) THEN kept
  ELSE The({DeduplicateFrom(next, k + 1, words) :
            next \in {IF \E i \in 1..Len(kept) : SimilarWords(words[k], words[kept[i]])
                      THEN kept ELSE Append(kept, k)}})

deduplicateSections(sections) ==
  The({<<>> \o [i \in 1..Len(kept) |-> sections[kept[i]]] :
       kept \in {The({DeduplicateFrom(<<>>, 1, words) : words \in {WordLists(sections)}})}})

\* the custom sections of a map from one type to a list of patterns
CustomSectionsOf(text, type, patterns) ==
  Flatten([k \in 1..Len(patterns) |-> CustomSections(text, type, k - 1, patterns[k])])

\* SectionExtractor.extractWithCustomPatterns
extractWithCustomPatterns(text, type, patterns, options, fault) ==
  The({deduplicateSections(standardResult.sections \o CustomSectionsOf(text, type, patterns)) :
       standardResult \in {extractSections(text, options, fault)}})


----------------------------------------------------------------------------
(* The texts the pipeline is run on                                        *)

\* Scenario A of the specification: one paragraph of 93 characters
ScenarioA ==
  <<"Y", "o", "u", " ", "a", "r", "e", " ", "a", " ", "h", "e", "l", "p", "f", "u", "l", " ", "a",
      "s", "s", "i", "s", "t", "a", "n", "t", ".", " ", "A", "n", "a", "l", "y", "z", "e", " ", "t",
      "h", "e", " ", "a", "t", "t", "a", "c", "h", "e", "d", " ", "r", "e", "p", "o", "r", "t", " ",
      "a", "n", "d", " ", "s", "u", "m", "m", "a", "r", "i", "z", "e", " ", "i", "t", " ", "i", "n",
      " ", "u", "n", "d", "e", "r", " ", "2", "0", "0", " ", "w", "o", "r", "d", "s", ".">>
EmptyText == <<>>
BlankText == <<" ", "\n", " ">>
\* two paragraphs of type constraints that score 65 and 70, in both orders
Constraints65First ==
  <<"B", "o", "t", "s", " ", "t", "h", "a", "t", " ", "w", "e", " ", "t", "r", "u", "s", "t", " ",
      "i", "n", " ", "f", "u", "l", "l", " ", "n", "e", "v", "e", "r", " ", "l", "i", "e", "s",
      "\n", "\n", "T", "o", "o", "l", "s", " ", "b", "u", "i", "l", "t", " ", "w", "i", "t", "h",
      " ", "c", "a", "r", "e", " ", "d", "o", " ", "n", "e", "v", "e", "r", " ", "f", "a", "i",
      "l">>
Constraints70First ==
  <<"B", "o", "t", "s", " ", "t", "h", "a", "t", " ", "w", "e", " ", "t", "r", "u", "s", "t", " ",
      "m", "u", "c", "h", " ", "n", "e", "v", "e", "r", " ", "l", "i", "e", "s", "\n", "\n", "T",
      "h", "i", "n", "g", "s", " ", "t", "h", "a", "t", " ", "w", "e", " ", "b", "u", "i", "l", "t",
      " ", "w", "i", "t", "h", " ", "c", "a", "r", "e", " ", "n", "e", "v", "e", "r", " ", "f", "a",
      "i", "l", "s">>
\* one paragraph of more than 100 characters, split by sentences
SentencesText ==
  <<"Y", "o", "u", " ", "a", "r", "e", " ", "a", " ", "c", "a", "r", "e", "f", "u", "l", " ", "e",
      "d", "i", "t", "o", "r", " ", "o", "f", " ", "o", "u", "r", " ", "r", "e", "p", "o", "r", "t",
      "s", ".", " ", "A", "n", "a", "l", "y", "z", "e", " ", "t", "h", "e", " ", "d", "r", "a", "f",
      "t", " ", "a", "n", "d", " ", "f", "i", "x", " ", "i", "t", "!", " ", "N", "e", "v", "e", "r",
      " ", "a", "d", "d", " ", "n", "e", "w", " ", "c", "l", "a", "i", "m", "s", ".", " ", "R", "e",
      "s", "p", "o", "n", "d", " ", "i", "n", " ", "j", "s", "o", "n", " ", "f", "o", "r", "m", "a",
      "t", ".">>
\* five paragraphs, one of each type
ParagraphsText ==
  <<"Y", "o", "u", " ", "a", "r", "e", " ", "a", " ", "t", "u", "t", "o", "r", ".", "\n", "\n", "E",
      "x", "p", "l", "a", "i", "n", " ", "t", "h", "e", " ", "p", "r", "o", "o", "f", ".", "\n",
      "\n", "N", "e", "v", "e", "r", " ", "g", "u", "e", "s", "s", ".", "\n", "\n", "F", "o", "r",
      " ", "e", "x", "a", "m", "p", "l", "e", ":", " ", "2", "+", "2", ".", "\n", "\n", "R", "e",
      "s", "p", "o", "n", "d", " ", "i", "n", " ", "j", "s", "o", "n", " ", "f", "o", "r", "m", "a",
      "t", ".">>
\* two constraints that merge and a third far from them, and three in a row
ApartText ==
  <<"B", "o", "t", "s", " ", "t", "h", "a", "t", " ", "w", "e", " ", "t", "r", "u", "s", "t", " ",
      "m", "u", "c", "h", " ", "n", "e", "v", "e", "r", " ", "l", "i", "e", "s", "\n", "\n", "T",
      "h", "i", "n", "g", "s", " ", "t", "h", "a", "t", " ", "w", "e", " ", "b", "u", "i", "l", "t",
      " ", "w", "i", "t", "h", " ", "c", "a", "r", "e", " ", "n", "e", "v", "e", "r", " ", "f", "a",
      "i", "l", "s", "\n", "\n", "W", "e", " ", "m", "e", "t", " ", "t", "h", "e", " ", "t", "e",
      "a", "m", " ", "a", "t", " ", "t", "h", "e", " ", "o", "l", "d", " ", "m", "i", "l", "l",
      "\n", "\n", "N", "e", "v", "e", "r", " ", "s", "t", "a", "l", "l", ".">>
ThreeText == <<"N", "e", "v", "e", "r", " ", "l", "i", "e", ".", " ", "\n", "\n", "A", "v", "o",
    "i", "d", " ", "s", "l", "a", "n", "g", ".", "\n", "\n", "N", "e", "v", "e", "r", " ", "s", "t",
    "a", "l", "l", ".">>

\* a text that repeats a word
RepeatText == <<"S", "t", "o", "p", " ", "s", "t", "o", "p", " ", "s", "t", "o", "p", " ", "n", "o",
    "w", ".">>

Texts ==
  {ScenarioA, EmptyText, BlankText, Constraints65First, Constraints70First,
   SentencesText, ParagraphsText, ApartText, ThreeText, RepeatText}

\* the options extractSections is called with
OptionSets ==
  [minConfidenceThreshold : {30, 66},
   resolveOverlaps : BOOLEAN,
   preserveContext : BOOLEAN,
   maxSectionsPerType : {1, 3}]

\* custom patterns handed to extractWithCustomPatterns: /never/, /\d+/,
\* and /^\s*/, which matches the empty string at the start of a text that
\* does not begin with white space
CustomPatternLists ==
  {<<Lit(<<"n", "e", "v", "e", "r">>)>>, <<Plus(Chr(Digits)), Lit(<<"n", "e", "v", "e", "r">>)>>,
      <<Cat(<<Bol, Star(Chr(Whitespace))>>)>>, <<Lit(<<"s", "t", "o", "p", " ", "s", "t", "o", "p",
      " ", "s", "t", "o", "p">>), Lit(<<"s", "t", "o", "p">>)>>}
CustomTypes == {"constraints", "unknown"}

\* feedback handed to reanalyzeSection
Feedbacks ==
  {[given |-> FALSE, correctedType |-> "unknown", wasCorrect |-> FALSE],
   [given |-> TRUE, correctedType |-> "task", wasCorrect |-> FALSE],
   [given |-> TRUE, correctedType |-> "role", wasCorrect |-> TRUE]}

----------------------------------------------------------------------------
(* The pipeline as a state machine                                         *)

VARIABLES
  text,               \* the source text handed to the pipeline
  patternStats,       \* PatternMatcher.patternStats
  totalAnalyses,      \* ContextAnalyzer.totalAnalyses
  feedbackData,       \* ContextAnalyzer.feedbackData
  calls,              \* the number of analyze and extract calls completed
  reanalyses,         \* the number of reanalyzeSection calls completed
  out,                \* what the last operation returned, or that it threw
  confidenceHistory,  \* ConfidenceScorer.confidenceHistory
  scorerFeedback,     \* ConfidenceScorer.feedbackData
  scored,             \* what the last call of the scorer was given and returned
  scorings,           \* the number of calls of the scorer completed
  generated,          \* what the last call of the template engine returned
  generations,        \* the number of calls of the template engine completed
  formatted,          \* what the last call of the formatter returned
  formats,            \* the number of calls of the formatter completed
  cleaned,            \* what the last call of cleanContent was given and returned
  cleanings,          \* the number of calls of cleanContent completed
  analyses,           \* what each repeated analyze call of the run returned
  banded,             \* a category and a length, and what each length rule made of them
  isProcessing,       \* usePomlStore.isProcessing
  isAnalyzing,        \* the isAnalyzing state of the parser hook
  hookCalls,          \* where each analyzeText call of the parser hook stands
  shown,              \* what the store and the hook show of the analyses
  now,                \* the time, in the units of wait
  timeout,            \* the timer the debounced function holds
  called,             \* the calls of the debounced function, with their times
  invoked             \* the invocations of the wrapped function, with their times

pipelineVars ==
  <<text, patternStats, totalAnalyses, feedbackData, calls, reanalyses, out>>
scorerVars == <<confidenceHistory, scorerFeedback, scored, scorings>>
generatorVars == <<generated, generations>>
formatterVars == <<formatted, formats>>
cleanerVars == <<cleaned, cleanings>>
repeatVars == <<analyses>>
bandVars == <<banded>>
hookVars == <<isProcessing, isAnalyzing, hookCalls, shown>>
debounceVars == <<now, timeout, called, invoked>>
vars ==
  <<pipelineVars, scorerVars, generatorVars, formatterVars, cleanerVars, repeatVars,
    bandVars, hookVars, debounceVars>>

\* the number of analyze and extract calls, and of reanalyzeSection calls,
\* of one run
MaxCalls == 1
MaxReanalyses == 1

NoOptions ==
  [minConfidenceThreshold |-> 0, resolveOverlaps |-> FALSE,
   preserveContext |-> FALSE, maxSectionsPerType |-> 0]

\* the shape of out; op = "none" before the first operation. scanned, steps
\* and capped are the input of the overlap scan, its successive lists and
\* the list after the cap per type; input is what the operation was given
\* besides the text.
Outcome(op, fault, threw, result, options, input) ==
  [op |-> op, fault |-> fault, threw |-> threw, sections |-> result.sections,
   confidence |-> result.confidence, errors |-> result.errors,
   scanned |-> result.scanned, steps |-> result.steps, capped |-> result.capped,
   options |-> options, input |-> input]

NoResult ==
  [sections |-> <<>>, confidence |-> 0, errors |-> <<>>,
   scanned |-> <<>>, steps |-> <<>>, capped |-> <<>>]
NoOutcome == Outcome("none", "none", FALSE, NoResult, NoOptions, <<>>)
Thrown(op, fault, options, input) == Outcome(op, fault, TRUE, NoResult, options, input)

PipelineInit ==
  /\ text \in Texts
  /\ patternStats = [c \in AllTypes |-> 0]
  /\ totalAnalyses = 0
  /\ feedbackData = <<>>
  /\ calls = 0
  /\ reanalyses = 0
  /\ out = NoOutcome

\* every PatternMatch pushed while analyzing text
AllMatches(blockMatches) ==
  Flatten([k \in 1..Len(blockMatches) |-> blockMatches[k].matches])

\* the counters after analyzeText(text, fault): matching runs unless the
\* text is blank or an earlier step threw, the context analysis likewise
StatsAfter(blockMatches, fault) ==
  IF IsBlank(text) \/ fault \in {"splitIntoBlocks", "matchPatterns"}
  THEN patternStats
  ELSE BumpStats(patternStats, AllMatches(blockMatches))
AnalysesAfter(fault) ==
  IF IsBlank(text) \/ fault \in {"splitIntoBlocks", "matchPatterns", "analyzeContext"}
  THEN totalAnalyses
  ELSE totalAnalyses + 1

\* analyze(text)
Analyze ==
  /\ calls < MaxCalls
  /\ \E blockMatches \in {BlockMatches(text)} :
     \E fault \in {"none"} \cup AnalysisSteps :
     \E r \in {AnalyzeFrom(blockMatches, text, fault)} :
       /\ out' = Outcome("analyze", fault, FALSE,
                         [NoResult EXCEPT !.sections = r.sections,
                                          !.confidence = r.confidence,
                                          !.errors = r.errors],
                         NoOptions, <<>>)
       /\ patternStats' = StatsAfter(blockMatches, fault)
       /\ totalAnalyses' = AnalysesAfter(fault)
  /\ calls' = calls + 1
  /\ UNCHANGED <<text, feedbackData, reanalyses>>
  /\ UNCHANGED <<scorerVars, generatorVars, formatterVars, cleanerVars, repeatVars, bandVars,
      hookVars, debounceVars>>

\* the analysis fault of a fault of extractSections
AnalysisFault(fault) == IF fault \in AnalysisSteps THEN fault ELSE "none"

\* what extract reports of an ExtractionResult
Extracted(r) ==
  [sections |-> r.sections, confidence |-> r.metadata.averageConfidence,
   errors |-> <<>>, scanned |-> r.scanned, steps |-> r.steps, capped |-> r.capped]

\* extract(text, options): a fault of the analysis is caught by
\* analyzeText, a fault of a later step leaves extractSections as thrown
Extract ==
  /\ calls < MaxCalls
  /\ \E blockMatches \in {BlockMatches(text)} :
     \E fault \in {"none"} \cup AnalysisSteps \cup ExtractionSteps :
     \E analysisResult \in {AnalyzeFrom(blockMatches, text, AnalysisFault(fault))} :
     \E options \in OptionSets :
     \E r \in {ExtractFrom(analysisResult, text, options)} :
       /\ out' = IF fault \in ExtractionSteps
                 THEN Thrown("extract", fault, options, <<>>)
                 ELSE Outcome("extract", fault, FALSE, Extracted(r), options, <<>>)
       /\ patternStats' = StatsAfter(blockMatches, AnalysisFault(fault))
       /\ totalAnalyses' = AnalysesAfter(AnalysisFault(fault))
  /\ calls' = calls + 1
  /\ UNCHANGED <<text, feedbackData, reanalyses>>
  /\ UNCHANGED <<scorerVars, generatorVars, formatterVars, cleanerVars, repeatVars, bandVars,
      hookVars, debounceVars>>

\* extractWithCustomPatterns(text, {type: patterns}, options) with the
\* default options: building a custom pattern (new RegExp) may throw
ExtractCustom ==
  /\ calls < MaxCalls
  /\ \E blockMatches \in {BlockMatches(text)} :
     \E standardResult \in
          {ExtractFrom(AnalyzeFrom(blockMatches, text, "none"), text, DefaultOptions)} :
     \E fault \in {"none", "customPattern"} :
     \E type \in CustomTypes :
     \E patterns \in CustomPatternLists :
     \E allSections \in {standardResult.sections \o CustomSectionsOf(text, type, patterns)} :
     \E sections \in {deduplicateSections(allSections)} :
       /\ out' = IF fault = "customPattern"
                 THEN Thrown("custom", fault, DefaultOptions, <<type, Len(patterns)>>)
                 ELSE Outcome("custom", fault, FALSE,
                              [NoResult EXCEPT !.sections = sections],
                              DefaultOptions, <<type, Len(patterns)>>)
       /\ patternStats' = StatsAfter(blockMatches, "none")
  /\ totalAnalyses' = AnalysesAfter("none")
  /\ calls' = calls + 1
  /\ UNCHANGED <<text, feedbackData, reanalyses>>
  /\ UNCHANGED <<scorerVars, generatorVars, formatterVars, cleanerVars, repeatVars, bandVars,
      hookVars, debounceVars>>

\* the steps of reanalyzeSectionWithContext, none of them guarded
ReanalysisSteps == {"substring", "matchPatterns"}

\* reanalyzeSection(section, text, feedback?) on a section the previous
\* operation returned
Reanalyze ==
  /\ reanalyses < MaxReanalyses
  /\ \E k \in 1..Len(out.sections) :
     \E section \in {out.sections[k]} :
     \E fault \in {"none"} \cup ReanalysisSteps :
       IF fault \in ReanalysisSteps
       THEN /\ out' = Thrown("reanalyze", fault, NoOptions, <<section>>)
            /\ UNCHANGED <<patternStats, feedbackData>>
       ELSE \E patterns \in {matchPatterns(SectionText(section, text))} :
            \E updated \in {ReanalyzeFrom(section, text, patterns)} :
            \E feedback \in Feedbacks :
              /\ out' = Outcome("reanalyze", fault, FALSE,
                                [NoResult EXCEPT !.sections = <<updated>>],
                                NoOptions, <<section, feedback>>)
              /\ patternStats' = BumpStats(patternStats, patterns)
              /\ feedbackData' =
                   IF feedback.given
                   THEN Append(feedbackData,
                               [oldType |-> section.type,
                                newType |-> feedback.correctedType,
                                wasCorrect |-> feedback.wasCorrect])
                   ELSE feedbackData
  /\ reanalyses' = reanalyses + 1
  /\ UNCHANGED <<text, totalAnalyses, calls>>
  /\ UNCHANGED <<scorerVars, generatorVars, formatterVars, cleanerVars, repeatVars, bandVars,
      hookVars, debounceVars>>

\* a variant of AnalysisNow in which a section loses ten points of
\* confidence for every feedback that rejected its type
AnalysisWithLearning(blockMatches) ==
  The({[r EXCEPT !.sections =
          <<>> \o [k \in 1..Len(r.sections) |->
                    [r.sections[k] EXCEPT !.confidence =
                       Max(0, @ - 10 * Cardinality({i \in 1..Len(feedbackData) :
                                                     /\ ~feedbackData[i].wasCorrect
                                                     /\ feedbackData[i].oldType
                                                          = r.sections[k].type}))]]] :
       r \in {AnalyzeFrom(blockMatches, text, "none")}})

\* analyzeText on the text of the run, as the instance is now: the counters
\* and the feedback of the instance are not read
AnalysisNow(blockMatches) == AnalyzeFrom(blockMatches, text, "none")

\* the number of repeated analyze calls of one run
MaxAnalyses == 2

RepeatInit == analyses = <<>>

\* analyze(text) once more on the same instance, after whatever analyze and
\* reanalyzeSection calls came before; the call is recorded with the
\* feedback and the counters it found
AnalyzeAgain ==
  /\ Len(analyses) < MaxAnalyses
  /\ \E blockMatches \in {BlockMatches(text)} :
     \E r \in {AnalysisNow(blockMatches)} :
       /\ out' = Outcome("analyze", "none", FALSE,
                         [NoResult EXCEPT !.sections = r.sections,
                                          !.confidence = r.confidence,
                                          !.errors = r.errors],
                         NoOptions, <<>>)
       /\ analyses' = Append(analyses, [sections |-> r.sections,
                                        feedback |-> Len(feedbackData),
                                        patternStats |-> patternStats,
                                        totalAnalyses |-> totalAnalyses])
       /\ patternStats' = StatsAfter(blockMatches, "none")
       /\ totalAnalyses' = AnalysesAfter("none")
  /\ UNCHANGED <<text, feedbackData, calls, reanalyses>>
  /\ UNCHANGED <<scorerVars, generatorVars, formatterVars, cleanerVars, bandVars, hookVars,
      debounceVars>>


----------------------------------------------------------------------------
(* ConfidenceScorer (parser/confidenceScorer.ts).  Its scores are exact    *)
(* fractions [num, den] in lowest terms with den > 0.                      *)

RECURSIVE Gcd(_, _)
Gcd(a, b) == IF b = 0 THEN a ELSE Gcd(b, a % b)

Frac(num, den) ==
  The({[num |-> num \div g, den |-> den \div g] : g \in {Gcd(Abs(num), den)}})
FracMul(x, y) ==
  The({Frac((x.num \div g1) * (y.num \div g2), (x.den \div g2) * (y.den \div g1)) :
       <<g1, g2>> \in {<<Gcd(Abs(x.num), y.den), Gcd(Abs(y.num), x.den)>>}})
FracAdd(x, y) ==
  The({Frac(x.num * (y.den \div g) + y.num * (x.den \div g), (x.den \div g) * y.den) :
       g \in {Gcd(x.den, y.den)}})
\* a / b < c / d for b, d > 0, by the integer parts and then the inverted
\* remainders, so that no product is formed
RECURSIVE LessThan(_, _, _, _)
LessThan(a, b, c, d) ==
  IF a \div b # c \div d THEN a \div b < c \div d
  ELSE IF c % d = 0 THEN FALSE
  ELSE IF a % b = 0 THEN TRUE
  ELSE LessThan(d, c % d, b, a % b)
FracLess(x, y) == LessThan(x.num, x.den, y.num, y.den)
FracMin(x, y) == IF FracLess(y, x) THEN y ELSE x
FracMax(x, y) == IF FracLess(x, y) THEN y ELSE x
Zero == Frac(0, 1)
One == Frac(1, 1)

\* optimalPositions, in tenths
OptimalPosition(type) ==
  CASE type = "role" -> 2 [] type = "task" -> 4 [] type = "constraints" -> 6
    [] type = "examples" -> 7 [] type = "outputFormat" -> 8 [] OTHER -> 5

\* 1.0 + (0.1 - |startIndex / context.length - optimal| * 0.2)
getPositionConfidenceMultiplier(section, context) ==
  Frac(110 * Len(context)
         - 2 * Abs(10 * section.startIndex - OptimalPosition(section.type) * Len(context)),
       100 * Len(context))

OptimalRange(type) ==
  CASE type = "role" -> [min |-> 20, max |-> 150, optimal |-> 60]
    [] type = "task" -> [min |-> 30, max |-> 300, optimal |-> 100]
    [] type = "constraints" -> [min |-> 20, max |-> 200, optimal |-> 80]
    [] type = "examples" -> [min |-> 50, max |-> 500, optimal |-> 150]
    [] type = "outputFormat" -> [min |-> 15, max |-> 100, optimal |-> 40]
    [] OTHER -> [min |-> 10, max |-> 1000, optimal |-> 100]

getLengthConfidenceMultiplier(section) ==
  LET length == Len(section.content)
      range == OptimalRange(section.type)
  IN  IF length < range.min THEN Frac(8, 10)
      ELSE IF length > range.max THEN Frac(9, 10)
      ELSE Frac(11 * range.optimal - Abs(length - range.optimal), 10 * range.optimal)

\* ConfidenceScorer.getRelevantKeywords
getRelevantKeywords(type) ==
  CASE type = "role" ->
         <<<<"y", "o", "u">>, <<"a", "r", "e">>, <<"a", "c", "t">>, <<"r", "o", "l", "e">>, <<"p",
             "e", "r", "s", "o", "n", "a">>, <<"c", "h", "a", "r", "a", "c", "t", "e", "r">>, <<"a",
             "s", "s", "i", "s", "t", "a", "n", "t">>>>
    [] type = "task" ->
         <<<<"a", "n", "a", "l", "y", "z", "e">>, <<"c", "r", "e", "a", "t", "e">>, <<"g", "e", "n",
             "e", "r", "a", "t", "e">>, <<"w", "r", "i", "t", "e">>, <<"d", "e", "v", "e", "l", "o",
             "p">>, <<"t", "a", "s", "k">>,
           <<"o", "b", "j", "e", "c", "t", "i", "v", "e">>, <<"g", "o", "a", "l">>>>
    [] type = "constraints" ->
         <<<<"d", "o", "n", "'", "t">>, <<"a", "v", "o", "i", "d">>, <<"n", "e", "v", "e", "r">>,
             <<"m", "u", "s", "t">>, <<"l", "i", "m", "i", "t">>, <<"r", "e", "s", "t", "r", "i",
             "c", "t">>,
           <<"c", "o", "n", "s", "t", "r", "a", "i", "n", "t">>, <<"r", "u", "l", "e">>>>
    [] type = "examples" ->
         <<<<"e", "x", "a", "m", "p", "l", "e">>, <<"i", "n", "s", "t", "a", "n", "c", "e">>, <<"s",
             "a", "m", "p", "l", "e">>, <<"d", "e", "m", "o", "n", "s", "t", "r", "a", "t", "i",
             "o", "n">>, <<"i", "l", "l", "u", "s", "t", "r", "a", "t", "i", "o", "n">>>>
    [] type = "outputFormat" ->
         <<<<"f", "o", "r", "m", "a", "t">>, <<"s", "t", "r", "u", "c", "t", "u", "r", "e">>, <<"j",
             "s", "o", "n">>, <<"x", "m", "l">>, <<"r", "e", "s", "p", "o", "n", "d">>, <<"p", "r",
             "e", "s", "e", "n", "t">>, <<"o", "u", "t", "p", "u", "t">>>>
    [] OTHER -> <<>>

\* 1.0 + min(relevantWordCount * 0.02, 0.1), counting the keywords that
\* some word of the context includes
getContextRelevanceMultiplier(section, context) ==
  The({Frac(100 + Min(2 * Len(SelectSeq(getRelevantKeywords(section.type),
                                        LAMBDA keyword :
                                          \E k \in 1..Len(contextWords) :
                                            Includes(contextWords[k], keyword))),
                      10),
            100) :
       contextWords \in {SplitByPattern(ToLowerCase(context), Plus(Chr(Whitespace)))}})

\* the regular expression of getTypeSpecificMultiplier for a type, whose
\* flag i is modelled by matching against the content in lower case
TypeIndicator(type) ==
  CASE type = "role" -> Cat(<<WB, Cap(1, Alt(<<Lit(<<"y", "o", "u">>), Lit(<<"y", "o", "u", "r">>),
      Lit(<<"i">>), Lit(<<"m", "y">>)>>)), WB>>)
    [] type = "task" -> Cat(<<WB, Cap(1, Alt(<<Lit(<<"a", "n", "a", "l", "y", "z", "e">>),
        Lit(<<"c", "r", "e", "a", "t", "e">>), Lit(<<"g", "e", "n", "e", "r", "a", "t", "e">>),
        Lit(<<"w", "r", "i", "t", "e">>), Lit(<<"d", "e", "v", "e", "l", "o", "p">>), Lit(<<"d",
        "e", "s", "i", "g", "n">>), Lit(<<"b", "u", "i", "l", "d">>)>>)), WB>>)
    [] type = "constraints" -> Cat(<<WB, Cap(1, Alt(<<Lit(<<"d", "o", "n", "'", "t">>), Lit(<<"n",
        "e", "v", "e", "r">>), Lit(<<"a", "v", "o", "i", "d">>), Lit(<<"m", "u", "s", "t", " ", "n",
        "o", "t">>), Lit(<<"c", "a", "n", "n", "o", "t">>), Lit(<<"s", "h", "o", "u", "l", "d", "n",
        "'", "t">>)>>)), WB>>)
    [] type = "examples" -> Cat(<<WB, Cap(1, Alt(<<Lit(<<"e", "x", "a", "m", "p", "l", "e">>),
        Lit(<<"f", "o", "r", " ", "i", "n", "s", "t", "a", "n", "c", "e">>), Lit(<<"s", "u", "c",
        "h", " ", "a", "s">>), Lit(<<"l", "i", "k", "e">>), Lit(<<"s", "a", "m", "p", "l",
        "e">>)>>)), WB>>)
    [] type = "outputFormat" -> Cat(<<WB, Cap(1, Alt(<<Lit(<<"j", "s", "o", "n">>), Lit(<<"x", "m",
        "l">>), Lit(<<"f", "o", "r", "m", "a", "t">>), Lit(<<"s", "t", "r", "u", "c", "t", "u", "r",
        "e">>), Lit(<<"r", "e", "s", "p", "o", "n", "s", "e">>), Lit(<<"o", "u", "t", "p", "u",
        "t">>)>>)), WB>>)

getTypeSpecificMultiplier(section) ==
  IF section.type = "unknown" THEN One
  ELSE IF RegexTest(TypeIndicator(section.type), ToLowerCase(section.content))
       THEN Frac(105, 100)
       ELSE Frac(95, 100)

\* 0.8 + accuracy * 0.4 over the feedback recorded for the type
getFeedbackBasedMultiplier(type, feedback) ==
  LET typeFeedback == SelectSeq(feedback, LAMBDA f : f.sectionType = type)
      positiveCount == Len(SelectSeq(typeFeedback, LAMBDA f : f.userFeedback))
  IN  IF Len(typeFeedback) = 0 THEN One
      ELSE Frac(8 * Len(typeFeedback) + 4 * positiveCount, 10 * Len(typeFeedback))

\* ConfidenceScorer.calculateSectionConfidence, reading this.feedbackData
calculateSectionConfidence(section, context, feedback) ==
  FracMax(Frac(1, 10), FracMin(One,
    FracMul(FracMul(FracMul(FracMul(FracMul(Frac(section.confidence, 100),
      getPositionConfidenceMultiplier(section, context)),
      getLengthConfidenceMultiplier(section)),
      getContextRelevanceMultiplier(section, context)),
      getTypeSpecificMultiplier(section)),
      getFeedbackBasedMultiplier(section.type, feedback))))

\* the length of pattern.toString() for the k-th pattern of a type
PatternSourceLength(type, k) ==
  (CASE type = "role" -> <<37, 36, 57, 30, 46, 42, 45>>
     [] type = "task" -> <<150, 37, 35, 122, 42>>
     [] type = "constraints" -> <<57, 64, 32, 29, 67, 74, 56>>
     [] type = "examples" -> <<71, 40, 74, 34, 53>>
     [] type = "outputFormat" -> <<67, 52, 43, 54, 70, 84>>)[k]

RECURSIVE JoinedLength(_)
JoinedLength(matchedPatterns) ==
  IF matchedPatterns = <<>> THEN 0
  ELSE PatternSourceLength(Head(matchedPatterns)[1], Head(matchedPatterns)[2])
       + JoinedLength(Tail(matchedPatterns))

\* min(matchedPatterns.join('').length / 100, 0.1)
calculatePatternSpecificity(match) ==
  FracMin(Frac(JoinedLength(match.matchedPatterns), 100), Frac(1, 10))

\* min(relevanceCount * 0.02, 0.05) over the text around the match
calculateContextRelevance(match, matchText) ==
  The({Frac(Min(2 * Len(SelectSeq(getRelevantKeywords(match.type),
                                  LAMBDA keyword : Includes(contextKeywords, keyword))),
                5),
            100) :
       contextKeywords \in
         {ToLowerCase(Substring(matchText, 0, match.startIndex)
                      \o Substring(matchText, match.endIndex, Len(matchText)))}})

\* position < 0.2 or position > 0.8, for position = startIndex / text.length
calculatePositionBonus(match, matchText) ==
  IF 10 * match.startIndex < 2 * Len(matchText) \/ 10 * match.startIndex > 8 * Len(matchText)
  THEN Frac(5, 100)
  ELSE Zero

calculateLengthModifier(matchedText) ==
  LET length == Len(matchedText)
  IN  IF length < 10 THEN Frac(-10, 100)
      ELSE IF length > 200 THEN Frac(-5, 100)
      ELSE IF length >= 20 /\ length <= 100 THEN Frac(5, 100)
      ELSE Zero

\* ConfidenceScorer.calculatePatternConfidence
calculatePatternConfidence(match, matchText) ==
  FracMax(Zero, FracMin(One,
    FracAdd(FracAdd(FracAdd(FracAdd(Frac(match.confidence, match.den),
      calculatePatternSpecificity(match)),
      calculateContextRelevance(match, matchText)),
      calculatePositionBonus(match, matchText)),
      calculateLengthModifier(match.matchedText))))

\* getSectionTypeWeights, in tenths
SectionTypeWeight(type) ==
  CASE type = "role" -> 12 [] type = "task" -> 13 [] type = "constraints" -> 10
    [] type = "examples" -> 9 [] type = "outputFormat" -> 11 [] OTHER -> 5

RECURSIVE TotalWeightedScore(_)
TotalWeightedScore(sections) ==
  IF sections = <<>> THEN 0
  ELSE Head(sections).confidence * SectionTypeWeight(Head(sections).type)
       + TotalWeightedScore(Tail(sections))
RECURSIVE TotalWeight(_)
TotalWeight(sections) ==
  IF sections = <<>> THEN 0
  ELSE SectionTypeWeight(Head(sections).type) + TotalWeight(Tail(sections))

\* finalConfidence of ConfidenceScorer.calculateOverallConfidence: the
\* weighted average plus the diversity and completeness bonuses
FinalConfidence(sections) ==
  LET averageConfidence == Frac(TotalWeightedScore(sections), 100 * TotalWeight(sections))
      diversityBonus == Frac(Min(Cardinality(TypesIn(sections)) * 5, 20), 100)
      completenessBonus ==
        IF "role" \in TypesIn(sections) /\ "task" \in TypesIn(sections)
        THEN Frac(1, 10) ELSE Zero
  IN  FracAdd(FracAdd(averageConfidence, diversityBonus), completenessBonus)

\* confidenceHistory after calculateOverallConfidence(sections): the push
\* of finalConfidence comes before the clamp of the returned value
HistoryAfter(history, sections) ==
  IF Len(sections) = 0 THEN history
  ELSE Append(history, FinalConfidence(sections))

\* the value ConfidenceScorer.calculateOverallConfidence returns
scorerOverallConfidence(sections) ==
  IF Len(sections) = 0 THEN Zero
  ELSE FracMax(Zero, FracMin(One, FinalConfidence(sections)))

RECURSIVE FracSum(_)
FracSum(values) ==
  IF values = <<>> THEN Zero ELSE FracAdd(Head(values), FracSum(Tail(values)))

\* ConfidenceScorer.getAverageConfidence
getAverageConfidence(history) ==
  IF Len(history) = 0 THEN Zero
  ELSE FracMul(FracSum(history), Frac(1, Len(history)))

\* the feedback kept by updateFromFeedback
FeedbackWindow == 100

\* feedbackData after updateFromFeedback(section, userFeedback)
FeedbackAfter(feedback, section, userFeedback) ==
  LET pushed == Append(feedback,
                       [sectionType |-> section.type,
                        originalConfidence |-> section.confidence,
                        userFeedback |-> userFeedback])
  IN  IF Len(pushed) > FeedbackWindow THEN Tail(pushed) ELSE pushed

----------------------------------------------------------------------------
(* The scorer as a state machine                                           *)

\* the context the scorer is called with, and the sections scored: every
\* sentence of the context, under every type and some confidences
ScorerContext ==
  <<"Y", "o", "u", " ", "a", "r", "e", " ", "a", " ", "c", "a", "r", "e", "f", "u", "l", " ", "e",
      "d", "i", "t", "o", "r", " ", "o", "f", " ", "o", "u", "r", " ", "r", "e", "p", "o", "r", "t",
      "s", ".", " ", "A", "n", "a", "l", "y", "z", "e", " ", "t", "h", "e", " ", "d", "r", "a", "f",
      "t", " ", "a", "n", "d", " ", "f", "i", "x", " ", "i", "t", "!", " ", "N", "e", "v", "e", "r",
      " ", "a", "d", "d", " ", "n", "e", "w", " ", "c", "l", "a", "i", "m", "s", ".", " ", "U", "s",
      "e", " ", "j", "s", "o", "n", ".">>
ScorerConfidences == {0, 50, 100}
ScorerSections ==
  {[type |-> type, content |-> block.content, confidence |-> confidence,
    startIndex |-> block.startIndex, endIndex |-> block.endIndex] :
   type \in AllTypes, confidence \in ScorerConfidences,
   block \in {splitBySentences(ScorerContext)[k] : k \in 1..4}}

\* the lists handed to calculateOverallConfidence: up to two sections
OverallPool ==
  {[type |-> type, confidence |-> confidence] :
   type \in {"role", "task", "unknown"}, confidence \in ScorerConfidences}
OverallLists ==
  {<<>>} \cup {<<a>> : a \in OverallPool} \cup {<<a, b>> : a \in OverallPool, b \in OverallPool}

\* the texts whose pattern matches are scored
MatchTexts == {ScenarioA, ThreeText}

\* the number of calls of the scorer in one run
MaxScorings == 2

NotScored ==
  [op |-> "none", value |-> Zero, raw |-> Zero, average |-> Zero]

ScorerInit ==
  /\ confidenceHistory = <<>>
  /\ scorerFeedback = <<>>
  /\ scored = NotScored
  /\ scorings = 0

\* scoreSection: calculateSectionConfidence(section, context)
ScoreSection ==
  /\ scorings < MaxScorings
  /\ \E section \in ScorerSections :
     \E value \in {calculateSectionConfidence(section, ScorerContext, scorerFeedback)} :
       scored' = [op |-> "section", value |-> value,
                  raw |-> Frac(section.confidence, 100),
                  average |-> getAverageConfidence(confidenceHistory)]
  /\ UNCHANGED <<confidenceHistory, scorerFeedback>>
  /\ scorings' = scorings + 1
  /\ UNCHANGED <<pipelineVars, generatorVars, formatterVars, cleanerVars, repeatVars, bandVars,
      hookVars, debounceVars>>

\* scorePatternMatch: calculatePatternConfidence(match, text) on a match
\* of the pattern matcher
ScorePattern ==
  /\ scorings < MaxScorings
  /\ \E matchText \in MatchTexts :
     \E matches \in {matchPatterns(matchText)} :
     \E k \in 1..Len(matches) :
     \E value \in {calculatePatternConfidence(matches[k], matchText)} :
       scored' = [op |-> "pattern", value |-> value,
                  raw |-> Frac(matches[k].confidence, matches[k].den),
                  average |-> getAverageConfidence(confidenceHistory)]
  /\ UNCHANGED <<confidenceHistory, scorerFeedback>>
  /\ scorings' = scorings + 1
  /\ UNCHANGED <<pipelineVars, generatorVars, formatterVars, cleanerVars, repeatVars, bandVars,
      hookVars, debounceVars>>

\* calculateOverallConfidence(sections), then getAverageConfidence()
ScoreOverall ==
  /\ scorings < MaxScorings
  /\ \E sections \in OverallLists :
     \E history \in {HistoryAfter(confidenceHistory, sections)} :
       /\ confidenceHistory' = history
       /\ scored' = [op |-> "overall", value |-> scorerOverallConfidence(sections),
                     raw |-> Zero, average |-> getAverageConfidence(history)]
  /\ UNCHANGED scorerFeedback
  /\ scorings' = scorings + 1
  /\ UNCHANGED <<pipelineVars, generatorVars, formatterVars, cleanerVars, repeatVars, bandVars,
      hookVars, debounceVars>>

\* updateFromFeedback(section, userFeedback)
UpdateFromFeedback ==
  /\ scorings < MaxScorings
  /\ \E type \in {"role", "task"} :
     \E userFeedback \in BOOLEAN :
       scorerFeedback' =
         FeedbackAfter(scorerFeedback, [type |-> type, confidence |-> 100], userFeedback)
  /\ UNCHANGED <<confidenceHistory, scored>>
  /\ scorings' = scorings + 1
  /\ UNCHANGED <<pipelineVars, generatorVars, formatterVars, cleanerVars, repeatVars, bandVars,
      hookVars, debounceVars>>


----------------------------------------------------------------------------
(* Strings of the generator: texts are tuples of characters                *)

\* the concatenation of ss[lo], ..., ss[hi]
RECURSIVE ConcatRange(_, _, _)
ConcatRange(ss, lo, hi) ==
  IF lo > hi THEN <<>>
  ELSE IF lo = hi THEN ss[lo]
  ELSE The({ConcatRange(ss, lo, mid) \o ConcatRange(ss, mid + 1, hi) :
            mid \in {(lo + hi) \div 2}})
Concat(ss) == ConcatRange(ss, 1, Len(ss))

\* pieces.join(separator)
Join(pieces, separator) ==
  Concat([k \in 1..Len(pieces) |-> IF k = 1 THEN pieces[k] ELSE separator \o pieces[k]])

\* s.replace(/c/g, replacement) for a character c
ReplaceChar(s, c, replacement) ==
  The({Concat([k \in 1..Len(t) |-> IF t[k] = c THEN replacement ELSE <<t[k]>>]) :
       t \in {s}})

\* s.split(c) for a character c
SplitByChar(s, c) ==
  The({The({[k \in 1..(Len(cuts) - 1) |-> Substring(t, cuts[k], cuts[k + 1] - 1)] :
            cuts \in {<<>> \o [k \in 1..(Cardinality(at) + 2) |->
                               IF k = 1 THEN 0
                               ELSE IF k = Cardinality(at) + 2 THEN Len(t) + 1
                               ELSE CHOOSE p \in at :
                                      Cardinality({q \in at : q <= p}) = k - 1]}}) :
       <<t, at>> \in {The({<<u, {p \in 1..Len(u) : u[p] = c}>> : u \in {s}})}})

\* s.repeat(n)
RECURSIVE Repeat(_, _)
Repeat(s, n) == IF n = 0 THEN <<>> ELSE s \o Repeat(s, n - 1)

\* n.toString() for a natural number n
DigitChars == <<"0", "1", "2", "3", "4", "5", "6", "7", "8", "9">>
RECURSIVE NatToString(_)
NatToString(n) ==
  IF n < 10 THEN <<DigitChars[n + 1]>>
  ELSE NatToString(n \div 10) \o <<DigitChars[(n % 10) + 1]>>

----------------------------------------------------------------------------
(* utils/helpers.ts                                                        *)

\* a variant of escapeXml that leaves the text as it is
EscapeNothing(str) == str

\* escapeXml: & first, then < > " '
escapeXml(str) ==
  ReplaceChar(ReplaceChar(ReplaceChar(ReplaceChar(ReplaceChar(str,
    "&", <<"&", "a", "m", "p", ";">>), "<", <<"&", "l", "t", ";">>), ">", <<"&", "g", "t", ";">>),
        "\"", <<"&", "q", "u", "o", "t", ";">>), "'", <<"&", "a", "p", "o", "s", ";">>)

----------------------------------------------------------------------------
(* PomlFormatter (generator/pomlFormatter.ts).  A PomlComponent is a       *)
(* record [tag, attributes, isArray, content, children]: attributes is the *)
(* sequence of the [key, value] entries in insertion order (empty when the *)
(* component has none); isArray tells whether the component's content is   *)
(* an array, kept in children, or a text, kept in content.                 *)

Leaf(tag, attributes, content) ==
  [tag |-> tag, attributes |-> attributes, isArray |-> FALSE,
   content |-> content, children |-> <<>>]
Node(tag, attributes, children) ==
  [tag |-> tag, attributes |-> attributes, isArray |-> TRUE,
   content |-> <<>>, children |-> children]
Attr(key, value) == [key |-> key, value |-> value]

\* PomlFormatter.defaultOptions
DefaultFormatting ==
  [indent |-> <<" ", " ">>, includeXmlDeclaration |-> FALSE,
   sortAttributes |-> FALSE, preserveWhitespace |-> TRUE]

\* a.localeCompare(b) < 0 for keys of blanks, digits and lower-case
\* letters, which collate in this order
Alphabet == <<" ", "0", "1", "2", "3", "4", "5", "6", "7", "8", "9", "a", "b", "c", "d", "e", "f",
    "g", "h", "i", "j", "k", "l", "m", "n", "o", "p", "q", "r", "s", "t", "u", "v", "w", "x", "y",
    "z">>
LetterRank(c) == CHOOSE k \in 1..Len(Alphabet) : Alphabet[k] = c
KeyBefore(a, b) ==
  \E k \in 1..(Len(a) + 1) :
    /\ \A j \in 1..(k - 1) : j <= Len(b) /\ a[j] = b[j]
    /\ IF k > Len(a) THEN Len(b) >= k
       ELSE k <= Len(b) /\ LetterRank(a[k]) < LetterRank(b[k])

\* attributeEntries.sort(([a], [b]) => a.localeCompare(b)): a stable sort
SortByKey(entries) ==
  <<>> \o [k \in 1..Len(entries) |->
             entries[CHOOSE i \in 1..Len(entries) :
                       Cardinality({j \in 1..Len(entries) :
                                      \/ KeyBefore(entries[j].key, entries[i].key)
                                      \/ j < i /\ ~KeyBefore(entries[i].key, entries[j].key)})
                         = k - 1]]

\* PomlFormatter.buildOpeningTag
buildOpeningTag(tag, attributes, options) ==
  IF Len(attributes) = 0 THEN tag
  ELSE The({tag \o <<" ">>
              \o Join([k \in 1..Len(attributeEntries) |->
                         attributeEntries[k].key \o <<"=", "\"">>
                           \o escapeXml(attributeEntries[k].value) \o <<"\"">>],
                      <<" ">>) :
            attributeEntries \in
              {IF options.sortAttributes THEN SortByKey(attributes) ELSE attributes}})

\* the length below which a text may be written on the line of its tags
SimpleContentLength == 80

\* PomlFormatter.isSimpleContent
isSimpleContent(content) ==
  /\ Len(content) < SimpleContentLength
  /\ ~Includes(content, <<"<">>)
  /\ ~Includes(content, <<">">>)
  /\ ~Includes(content, <<"&">>)
  /\ Trim(content) = content

\* the lines PomlFormatter.formatComponent pushes for a text content
FormatText(indent, openingTag, tag, content, depth, options) ==
  The({IF isSimpleContent(content) /\ ~Includes(content, <<"\n">>)
       THEN <<indent \o <<"<">> \o openingTag \o <<">">> \o escapedContent
                \o <<"<", "/">> \o tag \o <<">">>>>
       ELSE <<indent \o <<"<">> \o openingTag \o <<">">>>>
            \o (IF options.preserveWhitespace /\ Includes(content, <<"\n">>)
                THEN The({<<>> \o [k \in 1..Len(contentLines) |->
                                     Repeat(options.indent, depth + 1) \o contentLines[k]] :
                          contentLines \in {SplitByChar(escapedContent, "\n")}})
                ELSE <<Repeat(options.indent, depth + 1) \o escapedContent>>)
            \o <<indent \o <<"<", "/">> \o tag \o <<">">>>> :
       escapedContent \in {escapeXml(content)}})

\* PomlFormatter.formatComponent: the lines pushed for a component
RECURSIVE formatComponent(_, _, _)
formatComponent(component, depth, options) ==
  The({IF component.isArray
       THEN <<indent \o <<"<">> \o openingTag \o <<">">>>>
            \o Concat([k \in 1..Len(component.children) |->
                         formatComponent(component.children[k], depth + 1, options)])
            \o <<indent \o <<"<", "/">> \o component.tag \o <<">">>>>
       ELSE FormatText(indent, openingTag, component.tag, component.content, depth, options) :
       <<indent, openingTag>> \in
         {<<Repeat(options.indent, depth),
            buildOpeningTag(component.tag, component.attributes, options)>>}})

XmlDeclaration == <<"<", "?", "x", "m", "l", " ", "v", "e", "r", "s", "i", "o", "n", "=", "\"", "1",
    ".", "0", "\"", " ", "e", "n", "c", "o", "d", "i", "n", "g", "=", "\"", "U", "T", "F", "-", "8",
    "\"", "?", ">">>

\* PomlFormatter.format
format(components, options) ==
  Join((IF options.includeXmlDeclaration THEN <<XmlDeclaration>> ELSE <<>>)
         \o Concat([k \in 1..Len(components) |-> formatComponent(components[k], 0, options)]),
       <<"\n">>)

\* PomlFormatter.formatComponentMinified
RECURSIVE formatComponentMinified(_)
formatComponentMinified(component) ==
  The({IF component.isArray
       THEN <<"<">> \o openingTag \o <<">">>
            \o Concat([k \in 1..Len(component.children) |->
                         formatComponentMinified(component.children[k])])
            \o <<"<", "/">> \o component.tag \o <<">">>
       ELSE <<"<">> \o openingTag \o <<">">> \o escapeXml(component.content)
            \o <<"<", "/">> \o component.tag \o <<">">> :
       openingTag \in
         {buildOpeningTag(component.tag, component.attributes, DefaultFormatting)}})

\* PomlFormatter.formatMinified
formatMinified(components) ==
  Concat([k \in 1..Len(components) |-> formatComponentMinified(components[k])])

\* PomlFormatter.isValidTagName: /^[a-zA-Z_][a-zA-Z0-9._-]*$/
isValidTagName(name) ==
  /\ Len(name) > 0
  /\ name[1] \in LowerLetters \cup UpperLetters \cup {"_"}
  /\ \A k \in 2..Len(name) :
       name[k] \in LowerLetters \cup UpperLetters \cup Digits \cup {".", "_", "-"}
isValidAttributeName(name) == isValidTagName(name)

\* PomlFormatter.validateComponent: the error messages; attribute values
\* and text contents are strings by construction
RECURSIVE validateComponent(_)
validateComponent(component) ==
  (IF isValidTagName(component.tag) THEN <<>>
   ELSE <<<<"I", "n", "v", "a", "l", "i", "d", " ", "t", "a", "g", " ", "n", "a", "m", "e", ":",
       " ", "'">> \o component.tag \o <<"'">>>>)
  \o Concat([k \in 1..Len(component.attributes) |->
               IF isValidAttributeName(component.attributes[k].key) THEN <<>>
               ELSE <<<<"I", "n", "v", "a", "l", "i", "d", " ", "a", "t", "t", "r", "i", "b", "u",
                   "t", "e", " ", "n", "a", "m", "e", ":", " ",
                   "'">> \o component.attributes[k].key \o <<"'">>>>])
  \o (IF component.isArray
      THEN Concat([i \in 1..Len(component.children) |->
                     The({<<>> \o [j \in 1..Len(childErrors) |->
                                     <<"C", "h", "i", "l", "d",
                                         " ">> \o NatToString(i - 1) \o <<":", " ">>
                                       \o childErrors[j]] :
                          childErrors \in {validateComponent(component.children[i])}})])
      ELSE <<>>)

----------------------------------------------------------------------------
(* Reading markup back into its tag structure.  The repository has no      *)
(* parser of its own output; this one follows the specification's          *)
(* "parsing the tag structure back": elements, their attributes and the    *)
(* text of the elements without children, with the five entities undone.   *)

\* s.replaceAll(pattern, c) for a pattern that cannot overlap itself
ReplaceText(s, pattern, c) ==
  The({Concat([p \in 1..Len(t) |->
                 IF OccursAt(t, pattern, p - 1) THEN <<c>>
                 ELSE IF \E q \in (p - Len(pattern) + 1)..(p - 1) : OccursAt(t, pattern, q - 1)
                      THEN <<>>
                      ELSE <<t[p]>>]) :
       t \in {s}})

unescapeXml(s) ==
  ReplaceText(ReplaceText(ReplaceText(ReplaceText(ReplaceText(s,
    <<"&", "a", "p", "o", "s", ";">>, "'"), <<"&", "q", "u", "o", "t", ";">>, "\""), <<"&", "g",
        "t", ";">>, ">"), <<"&", "l", "t", ";">>, "<"), <<"&", "a", "m", "p", ";">>, "&")

\* the elements of a set of numbers in increasing order
Ascending(S) ==
  <<>> \o [k \in 1..Cardinality(S) |-> CHOOSE p \in S : Cardinality({q \in S : q <= p}) = k]

\* the attributes written inside an opening tag, after its name
AttributesIn(inside) ==
  The({<<>> \o [i \in 1..(Len(quotes) \div 2) |->
                  Attr(Substring(inside,
                                 IF i = 1 THEN IndexOf(inside, <<" ">>, 0) + 1
                                 ELSE quotes[2 * i - 2] + 1,
                                 quotes[2 * i - 1] - 2),
                       unescapeXml(Substring(inside, quotes[2 * i - 1], quotes[2 * i] - 1)))] :
       quotes \in {Ascending({p \in 1..Len(inside) : inside[p] = "\""})}})

\* one tag of the markup with the text that follows it
TokenAt(markup, open, close, nextOpen) ==
  The({[kind |-> IF inside # <<>> /\ inside[1] = "/" THEN "close"
                 ELSE IF inside # <<>> /\ inside[1] = "?" THEN "declaration"
                 ELSE "open",
        tag |-> IF IndexOf(inside, <<" ">>, 0) = -1 THEN inside
                ELSE Substring(inside, 0, IndexOf(inside, <<" ">>, 0)),
        attributes |-> AttributesIn(inside),
        text |-> IF close < nextOpen THEN Substring(markup, close, nextOpen - 1) ELSE <<>>] :
       inside \in {IF open < close THEN Substring(markup, open, close - 1) ELSE <<>>}})

\* the tags of the markup in order
Tokens(markup) ==
  The({<<>> \o [k \in 1..Len(opens) |->
                  TokenAt(markup, opens[k],
                          CHOOSE c \in opens[k]..(Len(markup) + 1) :
                            /\ c <= Len(markup) => markup[c] = ">"
                            /\ \A d \in opens[k]..(c - 1) : markup[d] # ">",
                          IF k < Len(opens) THEN opens[k + 1] ELSE Len(markup) + 1)] :
       opens \in {Ascending({p \in 1..Len(markup) : markup[p] = "<"})}})

\* the elements that start at token k, up to the closing tag of their
\* parent; next is the index of that closing tag
RECURSIVE ElementsFrom(_, _)
ElementsFrom(tokens, k) ==
  IF k > Len(tokens) \/ tokens[k].kind = "close" THEN [elements |-> <<>>, next |-> k]
  ELSE IF tokens[k].kind = "declaration" THEN ElementsFrom(tokens, k + 1)
  ELSE The({The({[elements |->
                    <<[tag |-> tokens[k].tag, attributes |-> tokens[k].attributes,
                       children |-> inner.elements,
                       text |-> IF inner.elements = <<>>
                                THEN unescapeXml(tokens[k].text) ELSE <<>>]>>
                    \o rest.elements,
                  next |-> rest.next] :
                 rest \in {ElementsFrom(tokens, inner.next + 1)}}) :
            inner \in {ElementsFrom(tokens, k + 1)}})

ParseMarkup(markup) ==
  The({ElementsFrom(tokens, 1).elements : tokens \in {Tokens(markup)}})

\* the markup is well formed: its tags nest and every one is closed
RECURSIVE ClosesFrom(_, _, _)
ClosesFrom(tokens, k, stack) ==
  IF k > Len(tokens) THEN stack = <<>>
  ELSE IF tokens[k].kind = "declaration" THEN ClosesFrom(tokens, k + 1, stack)
  ELSE IF tokens[k].kind = "open" THEN ClosesFrom(tokens, k + 1, <<tokens[k].tag>> \o stack)
  ELSE /\ stack # <<>>
       /\ <<"/">> \o Head(stack) = tokens[k].tag
       /\ ClosesFrom(tokens, k + 1, Tail(stack))
WellFormed(markup) ==
  The({ClosesFrom(tokens, 1, <<>>) : tokens \in {Tokens(markup)}})

\* the element read back has the tag, the attribute set and the content
\* of the component: its children in order, or its text, with or without
\* the white space around it
RECURSIVE SameTree(_, _)
SameTree(component, element) ==
  /\ element.tag = component.tag
  /\ {element.attributes[k] : k \in 1..Len(element.attributes)}
       = {component.attributes[k] : k \in 1..Len(component.attributes)}
  /\ IF component.isArray
     THEN /\ Len(element.children) = Len(component.children)
          /\ \A k \in 1..Len(component.children) :
               SameTree(component.children[k], element.children[k])
     ELSE /\ element.children = <<>>
          /\ element.text = component.content \/ Trim(element.text) = component.content
SameTrees(components, elements) ==
  /\ Len(elements) = Len(components)
  /\ \A k \in 1..Len(components) : SameTree(components[k], elements[k])

----------------------------------------------------------------------------
(* The formatter as a state machine                                        *)

\* a text of 80 characters
EightyText ==
  <<"S", "u", "m", "m", "a", "r", "i", "z", "e", " ", "t", "h", "e", " ", "a", "t", "t", "a", "c",
      "h", "e", "d", " ", "r", "e", "p", "o", "r", "t", " ", "i", "n", " ", "p", "l", "a", "i", "n",
      " ", "w", "o", "r", "d", "s", " ", "a", "n", "d", " ", "k", "e", "e", "p", " ", "e", "v", "e",
      "r", "y", " ", "f", "i", "g", "u", "r", "e", " ", "a", "s", " ", "i", "t", " ", "i", "s", " ",
      "n", "o", "w", ".">>

\* the component lists handed to the formatter
FormatInputs ==
  {<<Leaf(<<"r", "o", "l", "e">>, <<>>, <<"B", "e", " ", "k", "i", "n", "d">>)>>,
   <<Leaf(<<"t", "a", "s", "k">>, <<>>, <<"a", " ", "<", " ", "b", " ", "&", " ", "c", " ", ">",
       " ", "d">>)>>,
   <<Leaf(<<"t", "a", "s", "k">>, <<>>, <<" ", "p", "a", "d", "d", "e", "d", " ">>)>>,
   <<Leaf(<<"t", "a", "s", "k">>, <<>>, <<"o", "n", "e", "\n", "t", "w", "o">>)>>,
   <<Leaf(<<"t", "a", "s", "k">>, <<>>, EightyText)>>,
   <<Leaf(<<"p">>, <<Attr(<<"t", "y", "p", "e">>, <<"u", "n", "c", "l", "a", "s", "s", "i", "f",
       "i", "e", "d">>)>>, <<"s", "a", "y", " ", "\"", "h", "i", "\"", ",", " ", "i", "t", "'", "s",
       " ", "f", "i", "n", "e">>)>>,
   <<Leaf(<<"r", "o", "l", "e">>, <<>>, <<>>)>>,
   <<Leaf(<<"1", "s", "t">>, <<Attr(<<"a", " ", "b">>, <<"x">>)>>, <<"B", "e", " ", "k", "i", "n",
       "d">>)>>,
   <<Node(<<"p", "r", "o", "m", "p", "t">>, <<Attr(<<"s", "e", "c", "t", "i", "o", "n", "s">>,
       <<"2">>), Attr(<<"c", "o", "n", "f", "i", "d", "e", "n", "c", "e">>, <<"a", "&", "b">>)>>,
          <<Leaf(<<"r", "o", "l", "e">>, <<>>, <<"B", "e", " ", "k", "i", "n", "d">>),
            Node(<<"c", "p">>, <<Attr(<<"c", "a", "p", "t", "i", "o", "n">>, <<"C", "o", "n", "s",
                "t", "r", "a", "i", "n", "t", "s">>)>>,
                 <<Node(<<"l", "i", "s", "t">>, <<>>,
                        <<Leaf(<<"i", "t", "e", "m">>, <<>>, <<"N", "e", "v", "e", "r", " ", "l",
                            "i", "e">>),
                          Leaf(<<"i", "t", "e", "m">>, <<>>, <<"A", "v", "o", "i", "d", " ", "s",
                              "l", "a", "n", "g">>)>>)>>)>>)>>,
   <<Node(<<"p", "r", "o", "m", "p", "t">>, <<>>, <<Leaf(<<"b", "a", "d", " ", "t", "a", "g">>,
       <<>>, <<"x">>)>>)>>,
   <<Leaf(<<"r", "o", "l", "e">>, <<>>, <<"B", "e", " ", "k", "i", "n", "d">>), Leaf(<<"o", "u",
       "t", "p", "u", "t", "-", "f", "o", "r", "m", "a", "t">>, <<Attr(<<"s", "y", "n", "t", "a",
       "x">>, <<"j", "s", "o", "n">>)>>,
                                           <<"R", "e", "s", "p", "o", "n", "d", " ", "i", "n", " ",
                                               "j", "s", "o", "n">>)>>,
   <<>>}

FormattingOptions ==
  [indent : {<<" ", " ">>, <<"\t">>}, includeXmlDeclaration : BOOLEAN,
   sortAttributes : BOOLEAN, preserveWhitespace : BOOLEAN]

\* the number of calls of the formatter in one run
MaxFormats == 1

NotFormatted ==
  [op |-> "none", components |-> <<>>, options |-> DefaultFormatting,
   markup |-> <<>>, errors |-> <<>>]

FormatterInit ==
  /\ formatted = NotFormatted
  /\ formats = 0

\* the errors of validateComponent over a list of components
ValidationErrors(components) ==
  Concat([k \in 1..Len(components) |-> validateComponent(components[k])])

\* format(components, options)
Format ==
  /\ formats < MaxFormats
  /\ \E components \in FormatInputs :
     \E options \in FormattingOptions :
     \E markup \in {format(components, options)} :
       formatted' = [op |-> "format", components |-> components, options |-> options,
                     markup |-> markup, errors |-> <<>>]
  /\ formats' = formats + 1
  /\ UNCHANGED <<pipelineVars, scorerVars, generatorVars, cleanerVars, repeatVars, bandVars,
      hookVars, debounceVars>>

\* formatMinified(components)
FormatMinified ==
  /\ formats < MaxFormats
  /\ \E components \in FormatInputs :
     \E markup \in {formatMinified(components)} :
       formatted' = [op |-> "formatMinified", components |-> components,
                     options |-> DefaultFormatting, markup |-> markup, errors |-> <<>>]
  /\ formats' = formats + 1
  /\ UNCHANGED <<pipelineVars, scorerVars, generatorVars, cleanerVars, repeatVars, bandVars,
      hookVars, debounceVars>>

\* validateComponent(component) on the first component of a list
Validate ==
  /\ formats < MaxFormats
  /\ \E components \in FormatInputs \ {<<>>} :
     \E errors \in {validateComponent(components[1])} :
       formatted' = [op |-> "validate", components |-> <<components[1]>>,
                     options |-> DefaultFormatting, markup |-> <<>>, errors |-> errors]
  /\ formats' = formats + 1
  /\ UNCHANGED <<pipelineVars, scorerVars, generatorVars, cleanerVars, repeatVars, bandVars,
      hookVars, debounceVars>>


----------------------------------------------------------------------------
(* TemplateEngine (generator/templateEngine.ts)                            *)

\* s.replace(/\s+/g, ' ')
NormalizeWhitespace(s) ==
  The({Concat([k \in 1..Len(t) |->
                 IF t[k] \notin Whitespace THEN <<t[k]>>
                 ELSE IF k > 1 /\ t[k - 1] \in Whitespace THEN <<>>
                 ELSE <<" ">>]) :
       t \in {s}})

\* the lead-in phrases cleanContent removes; the flag i is modelled by
\* matching against the content in lower case
CommonPrefix ==
  Cat(<<Bol, Cap(1, Alt(<<Lit(<<"y", "o", "u", " ", "a", "r", "e">>), Lit(<<"a", "c", "t", " ", "a",
      "s">>), Lit(<<"y", "o", "u", "r", " ", "t", "a", "s", "k", " ", "i", "s">>), Lit(<<"p", "l",
      "e", "a", "s", "e">>), Lit(<<"d", "o", "n", "'", "t">>), Lit(<<"f", "o", "r", " ", "e", "x",
      "a", "m", "p", "l", "e">>), Lit(<<"r", "e", "s", "p", "o", "n", "d", " ", "i", "n">>)>>)),
      Star(Chr(Whitespace))>>)

\* s.replace(CommonPrefix, ''): the pattern is anchored at the start, so at
\* most one match is removed
RemoveCommonPrefix(s) ==
  The({IF m.index = -1 THEN t ELSE Substring(t, m.end, Len(t)) :
       <<t, m>> \in {The({<<u, SearchFrom(CommonPrefix, ToLowerCase(u), 0)>> : u \in {s}})}})

\* TemplateEngine.cleanContent
cleanContent(content) ==
  Trim(RemoveCommonPrefix(NormalizeWhitespace(Trim(content))))

\* the patterns of extractListItems as a prefix and the captured rest:
\* /^[-*•]\s*(.+)$/gm, /^\d+\.\s*(.+)$/gm and /^-\s*(.+)$/gm (the texts of
\* the model hold no •)
ListPrefixes ==
  <<Cat(<<BolM, Chr({"-", "*"}), Star(Chr(Whitespace))>>),
    Cat(<<BolM, Plus(Chr(Digits)), Lit(<<".">>), Star(Chr(Whitespace))>>),
    Cat(<<BolM, Lit(<<"-">>), Star(Chr(Whitespace))>>)>>
ListRest == Cat(<<Plus(NotChr({"\n"})), EolM>>)

\* match[1] of every match of the pattern prefix (rest): the rest starts
\* at the first end of the prefix from which it matches
RECURSIVE ListMatchesFrom(_, _, _)
ListMatchesFrom(prefix, t, from) ==
  The({IF starts = {} THEN <<>>
       ELSE The({The({<<Substring(t, restStart, end)>> \o ListMatchesFrom(prefix, t, end) :
                      <<restStart, end>> \in
                        {The({<<prefixEnds[k], Head(Ends(ListRest, t, prefixEnds[k]))>> :
                              k \in {CHOOSE k \in 1..Len(prefixEnds) :
                                       /\ Ends(ListRest, t, prefixEnds[k]) # <<>>
                                       /\ \A j \in 1..(k - 1) :
                                            Ends(ListRest, t, prefixEnds[j]) = <<>>}})}}) :
                 prefixEnds \in {Ends(prefix, t,
                     CHOOSE p \in starts : \A q \in starts : p <= q)}}) :
       starts \in {{p \in from..Len(t) :
                      \E k \in 1..Len(Ends(prefix, t, p)) :
                        Ends(ListRest, t, Ends(prefix, t, p)[k]) # <<>>}}})

\* text.split(separator).filter(item => item.trim().length > 10)
LongItems(s, separator) ==
  SelectSeq(SplitByChar(s, separator), LAMBDA item : Len(Trim(item)) > 10)

\* the items a list must exceed in length, and the separators tried
ListSeparators == <<"\n", ";", ",">>

\* the for loops of extractListItems from pattern k and from separator k
RECURSIVE ItemsBySeparator(_, _)
ItemsBySeparator(s, k) ==
  IF k > Len(ListSeparators) THEN <<s>>
  ELSE The({IF Len(items) > 1 THEN items ELSE ItemsBySeparator(s, k + 1) :
            items \in {LongItems(s, ListSeparators[k])}})
RECURSIVE ItemsByPattern(_, _)
ItemsByPattern(s, k) ==
  IF k > Len(ListPrefixes) THEN ItemsBySeparator(s, 1)
  ELSE The({IF Len(matches) > 1 THEN matches ELSE ItemsByPattern(s, k + 1) :
            matches \in {ListMatchesFrom(ListPrefixes[k], s, 0)}})

\* TemplateEngine.extractListItems
extractListItems(s) == ItemsByPattern(s, 1)

\* the number of white space characters of t from offset p on
SpacesAt(t, p) ==
  Cardinality({q \in (p + 1)..Len(t) : \A j \in (p + 1)..q : t[j] \in Whitespace})

\* the matches of /first:\s*([^]*?)(?=second:|$)\s*second:\s*([^]*?)(?=first:|$)/gi
\* from offset from on: after first: the text up to the next second:, and
\* after it the text up to the next first: or the end, both trimmed
RECURSIVE PairsFrom(_, _, _, _)
PairsFrom(t, first, second, from) ==
  The({IF i = -1 THEN <<>>
       ELSE The({IF q = -1 THEN <<>>
                 ELSE The({<<[input |-> Trim(Substring(t, i + Len(first), q)),
                              output |-> Trim(Substring(t, q + Len(second), r))]>>
                           \o PairsFrom(t, first, second, r) :
                           r \in {The({IF n = -1 THEN Len(t) ELSE n :
                                       n \in {IndexOf(ToLowerCase(t), first,
                                                      q + Len(second)
                                                        + SpacesAt(t, q + Len(second)))}})}}) :
                 q \in {IndexOf(ToLowerCase(t), second, i + Len(first))}}) :
       i \in {IndexOf(ToLowerCase(t), first, from)}})

\* a variant of extractInputOutputExamples that adds the Q:/A: pairs to the
\* Input:/Output: pairs
ExtractBothKinds(s) ==
  PairsFrom(s, <<"i", "n", "p", "u", "t", ":">>, <<"o", "u", "t", "p", "u", "t", ":">>,
      0) \o PairsFrom(s, <<"q", ":">>, <<"a", ":">>, 0)

\* TemplateEngine.extractInputOutputExamples
extractInputOutputExamples(s) ==
  The({IF Len(examples) = 0 THEN PairsFrom(s, <<"q", ":">>, <<"a", ":">>, 0) ELSE examples :
       examples \in {PairsFrom(s, <<"i", "n", "p", "u", "t", ":">>, <<"o", "u", "t", "p", "u", "t",
           ":">>, 0)}})

\* the formats of detectFormatType with their keywords
Formats ==
  <<[keywords |-> <<<<"j", "s", "o", "n">>, <<"j", "a", "v", "a", "s", "c", "r", "i", "p", "t", " ",
      "o", "b", "j", "e", "c", "t", " ", "n", "o", "t", "a", "t", "i", "o", "n">>>>, type |-> <<"j",
      "s", "o", "n">>],
    [keywords |-> <<<<"x", "m", "l">>, <<"m", "a", "r", "k", "u", "p">>>>, type |-> <<"x", "m",
        "l">>],
    [keywords |-> <<<<"m", "a", "r", "k", "d", "o", "w", "n">>, <<"m", "d">>>>, type |-> <<"m", "a",
        "r", "k", "d", "o", "w", "n">>],
    [keywords |-> <<<<"h", "t", "m", "l">>>>, type |-> <<"h", "t", "m", "l">>],
    [keywords |-> <<<<"c", "s", "v">>, <<"c", "o", "m", "m", "a", " ", "s", "e", "p", "a", "r", "a",
        "t", "e", "d">>>>, type |-> <<"c", "s", "v">>],
    [keywords |-> <<<<"y", "a", "m", "l">>, <<"y", "m", "l">>>>, type |-> <<"y", "a", "m", "l">>],
    [keywords |-> <<<<"t", "a", "b", "l", "e">>, <<"t", "a", "b", "u", "l", "a", "r">>>>,
        type |-> <<"t", "a", "b", "l", "e">>],
    [keywords |-> <<<<"b", "u", "l", "l", "e", "t", " ", "p", "o", "i", "n", "t", "s">>, <<"b", "u",
        "l", "l", "e", "t", "s">>>>, type |-> <<"l", "i", "s", "t">>]>>

\* TemplateEngine.detectFormatType: the type of the first format one of
\* whose keywords the content includes, or the empty text for null
detectFormatType(content) ==
  The({IF hits = {} THEN <<>>
       ELSE Formats[CHOOSE k \in hits : \A j \in hits : k <= j].type :
       hits \in {{k \in 1..Len(Formats) :
                    \E j \in 1..Len(Formats[k].keywords) :
                      Includes(ToLowerCase(content), Formats[k].keywords[j])}}})

createRoleComponent(section) == Leaf(<<"r", "o", "l", "e">>, <<>>, cleanContent(section.content))
createTaskComponent(section) == Leaf(<<"t", "a", "s", "k">>, <<>>, cleanContent(section.content))

createConstraintsComponent(section) ==
  The({The({IF Len(listItems) > 1
            THEN Node(<<"c", "p">>, <<Attr(<<"c", "a", "p", "t", "i", "o", "n">>, <<"C", "o", "n",
                "s", "t", "r", "a", "i", "n", "t", "s">>)>>,
                      <<Node(<<"l", "i", "s", "t">>, <<>>,
                             <<>> \o [k \in 1..Len(listItems) |->
                                        Leaf(<<"i", "t", "e", "m">>, <<>>, Trim(listItems[k]))])>>)
            ELSE Leaf(<<"c", "p">>, <<Attr(<<"c", "a", "p", "t", "i", "o", "n">>, <<"C", "o", "n",
                "s", "t", "r", "a", "i", "n", "t", "s">>)>>, content) :
            listItems \in {extractListItems(content)}}) :
       content \in {cleanContent(section.content)}})

createExamplesComponent(section) ==
  The({The({IF Len(examples) > 0
            THEN Node(<<"e", "x", "a", "m", "p", "l", "e", "s">>, <<>>,
                      <<>> \o [k \in 1..Len(examples) |->
                                 Node(<<"e", "x", "a", "m", "p", "l", "e">>, <<>>,
                                      <<Leaf(<<"i", "n", "p", "u", "t">>, <<>>, examples[k].input),
                                        Leaf(<<"o", "u", "t", "p", "u", "t">>, <<>>,
                                            examples[k].output)>>)])
            ELSE Node(<<"e", "x", "a", "m", "p", "l", "e", "s">>, <<>>, <<Leaf(<<"e", "x", "a", "m",
                "p", "l", "e">>, <<>>, content)>>) :
            examples \in {extractInputOutputExamples(content)}}) :
       content \in {cleanContent(section.content)}})

createOutputFormatComponent(section) ==
  The({The({Leaf(<<"o", "u", "t", "p", "u", "t", "-", "f", "o", "r", "m", "a", "t">>,
                 IF formatType # <<>> THEN <<Attr(<<"s", "y", "n", "t", "a", "x">>,
                     formatType)>> ELSE <<>>,
                 content) :
            formatType \in {detectFormatType(content)}}) :
       content \in {cleanContent(section.content)}})

createGenericComponent(section) ==
  Leaf(<<"p">>,
       IF section.type = "unknown" THEN <<Attr(<<"t", "y", "p", "e">>, <<"u", "n", "c", "l", "a",
           "s", "s", "i", "f", "i", "e", "d">>)>> ELSE <<>>,
       cleanContent(section.content))

\* TemplateEngine.componentMappings
MappedComponent(section) ==
  CASE section.type = "role" -> createRoleComponent(section)
    [] section.type = "task" -> createTaskComponent(section)
    [] section.type = "constraints" -> createConstraintsComponent(section)
    [] section.type = "examples" -> createExamplesComponent(section)
    [] section.type = "outputFormat" -> createOutputFormatComponent(section)
    [] OTHER -> createGenericComponent(section)

\* TemplateEngine.sectionToComponent (every type has a mapping)
sectionToComponent(section, includeConfidence) ==
  The({IF includeConfidence /\ section.confidence < 100
       THEN [component EXCEPT
               !.attributes = @ \o <<Attr(<<"c", "o", "n", "f", "i", "d", "e", "n", "c", "e">>,
                   NatToString(section.confidence))>>]
       ELSE component :
       component \in {MappedComponent(section)}})

\* the name of a type as it is written in a message
TypeName(type) ==
  CASE type = "role" -> <<"r", "o", "l", "e">> [] type = "task" -> <<"t", "a", "s", "k">>
    [] type = "constraints" -> <<"c", "o", "n", "s", "t", "r", "a", "i", "n", "t",
        "s">> [] type = "examples" -> <<"e", "x", "a", "m", "p", "l", "e", "s">>
    [] type = "outputFormat" -> <<"o", "u", "t", "p", "u", "t", "F", "o", "r", "m", "a",
        "t">> [] OTHER -> <<"u", "n", "k", "n", "o", "w", "n">>

\* the confidence below which generatePoml drops a section
LowConfidence == 20

\* the warnings filterAndSortSections pushes
LowConfidenceWarnings(sections) ==
  Concat([k \in 1..Len(sections) |->
            IF sections[k].confidence < LowConfidence
            THEN <<<<"S", "k", "i", "p", "p", "e", "d", " ", "l", "o", "w", "-", "c", "o", "n", "f",
                "i", "d", "e", "n", "c", "e", " ", "s", "e", "c", "t", "i", "o", "n", ":",
                " ">> \o TypeName(sections[k].type)
                     \o <<" ", "(">> \o NatToString(sections[k].confidence) \o <<"%", ")">>>>
            ELSE <<>>])

TypeOrder(type) ==
  CASE type = "role" -> 1 [] type = "task" -> 2 [] type = "constraints" -> 3
    [] type = "examples" -> 4 [] type = "outputFormat" -> 5 [] type = "unknown" -> 6
    [] OTHER -> 999

\* section j comes before section k in the sort of filterAndSortSections:
\* by type order, then by startIndex, then as they stood
SortsBefore(ss, j, k) ==
  \/ TypeOrder(ss[j].type) < TypeOrder(ss[k].type)
  \/ /\ TypeOrder(ss[j].type) = TypeOrder(ss[k].type)
     /\ \/ ss[j].startIndex < ss[k].startIndex
        \/ ss[j].startIndex = ss[k].startIndex /\ j < k

\* a variant of filterAndSortSections that filters and leaves the order
FilterWithoutSorting(sections) ==
  SelectSeq(sections, LAMBDA section : section.confidence >= LowConfidence)

\* TemplateEngine.filterAndSortSections without its warnings
filterAndSortSections(sections) ==
  The({<<>> \o [k \in 1..Len(filtered) |->
                  filtered[CHOOSE i \in 1..Len(filtered) :
                             Cardinality({j \in 1..Len(filtered) : SortsBefore(filtered, j, i)})
                               = k - 1]] :
       filtered \in {SelectSeq(sections, LAMBDA section : section.confidence >= LowConfidence)}})

\* TemplateEngine.calculateAverageConfidence, as a fraction
calculateAverageConfidence(sections) ==
  IF Len(sections) = 0 THEN Zero ELSE Frac(SumConfidence(sections), Len(sections))

\* new Date().toISOString() at the time of the call
Timestamp == <<"2", "0", "2", "5", "-", "0", "1", "-", "0", "1", "T", "0", "0", ":", "0", "0", ":",
    "0", "0", ".", "0", "0", "0", "Z">>

\* TemplateEngine.generateErrorPoml
generateErrorPoml(errorMessage) ==
  <<"<", "p", "r", "o", "m", "p", "t", ">", "\n", " ", " ", "<", "e", "r", "r", "o", "r", ">", "\n",
      " ", " ", " ", " ", "F", "a", "i", "l", "e", "d", " ", "t", "o", " ", "g", "e", "n", "e", "r",
      "a", "t", "e", " ", "P", "O", "M", "L", ":", " ">> \o escapeXml(errorMessage)
    \o <<"\n", " ", " ", "<", "/", "e", "r", "r", "o", "r", ">", "\n", "<", "/", "p", "r", "o", "m",
        "p", "t", ">">>

\* the steps of generatePoml's try block, any of which may throw
GenerationSteps == {"filterAndSortSections", "sectionToComponent", "format"}

\* error instanceof Error ? error.message : 'Unknown error'
MessageOf(thrown) == IF thrown.isError THEN thrown.message ELSE <<"U", "n", "k", "n", "o", "w", "n",
    " ", "e", "r", "r", "o", "r">>

\* the root component of generatePoml
RootComponent(sections, components, options) ==
  Node(options.rootElement,
       IF options.includeMetadata
       THEN <<Attr(<<"g", "e", "n", "e", "r", "a", "t", "e", "d">>, Timestamp),
              Attr(<<"s", "e", "c", "t", "i", "o", "n", "s">>, NatToString(Len(sections))),
              Attr(<<"c", "o", "n", "f", "i", "d", "e", "n", "c", "e">>,
                   NatToString(IF Len(sections) = 0 THEN 0
                               ELSE RoundDiv(SumConfidence(sections), Len(sections))))>>
       ELSE <<>>,
       components)

\* TemplateEngine.generatePoml: fault names the step of the try block that
\* throws thrown, or is "none"
generatePoml(sections, options, fault, thrown) ==
  IF fault \in GenerationSteps
  THEN [poml |-> generateErrorPoml(MessageOf(thrown)),
        components |-> <<>>,
        metadata |-> [sectionsProcessed |-> 0, averageConfidence |-> Zero,
                      warnings |-> <<<<"G", "e", "n", "e", "r", "a", "t", "i", "o", "n", " ", "f",
                          "a", "i", "l", "e", "d", ":", " ">> \o MessageOf(thrown)>>]]
  ELSE The({The({[poml |-> IF options.formatOutput
                           THEN format(<<RootComponent(sections, components, options)>>,
                                       DefaultFormatting)
                           ELSE formatMinified(<<RootComponent(sections, components, options)>>),
                  components |-> components,
                  metadata |-> [sectionsProcessed |-> Len(validSections),
                                averageConfidence |-> calculateAverageConfidence(sections),
                                warnings |-> LowConfidenceWarnings(sections)]] :
                 components \in
                   {<<>> \o [k \in 1..Len(validSections) |->
                               sectionToComponent(validSections[k], options.includeConfidence)]}}) :
            validSections \in {filterAndSortSections(sections)}})

\* the sections generateFromTemplate builds from a template's structure
TemplateSections(structure) ==
  <<>> \o [k \in 1..Len(structure) |->
             [id |-> <<"template", k - 1>>, type |-> structure[k].type,
              content |-> structure[k].content, confidence |-> 100,
              startIndex |-> 0, endIndex |-> Len(structure[k].content)]]

----------------------------------------------------------------------------
(* The template engine as a state machine                                  *)

GeneratedSection(type, content, confidence, startIndex) ==
  [id |-> <<"section", startIndex>>, type |-> type, content |-> content,
   confidence |-> confidence, startIndex |-> startIndex,
   endIndex |-> startIndex + Len(content)]

RoleSection == GeneratedSection("role", <<"Y", "o", "u", " ", "a", "r", "e", " ", "a", " ", "t",
    "u", "t", "o", "r", ".">>, 90, 0)
TaskSection == GeneratedSection("task", <<"P", "l", "e", "a", "s", "e", " ", "e", "x", "p", "l",
    "a", "i", "n", "\n", " ", "t", "h", "e", " ", "p", "r", "o", "o", "f", ".">>, 100, 18)
ConstraintsSection ==
  GeneratedSection("constraints", <<"N", "e", "v", "e", "r", " ", "g", "u", "e", "s", "s", " ", "a",
      "n", " ", "a", "n", "s", "w", "e", "r", ";", " ", "a", "v", "o", "i", "d", " ", "s", "l", "a",
      "n", "g", " ", "w", "o", "r", "d", "s">>, 60, 46)
ExamplesSection == GeneratedSection("examples", <<"I", "n", "p", "u", "t", ":", " ", "2", "+", "2",
    " ", "O", "u", "t", "p", "u", "t", ":", " ", "4">>, 50, 88)
TwoPairsSection ==
  GeneratedSection("examples", <<"I", "n", "p", "u", "t", ":", " ", "1", "+", "1", " ", " ", "O",
      "u", "t", "p", "u", "t", ":", " ", "2", "\n", "I", "n", "p", "u", "t", ":", " ", "2", "+",
      "3", " ", "O", "u", "t", "p", "u", "t", ":", " ", "5">>, 70, 88)
AnsweredSection == GeneratedSection("examples", <<"Q", ":", " ", "1", "+", "1", " ", "A", ":", " ",
    "2", " ", "q", ":", " ", "2", "+", "3", " ", "a", ":", " ", "5">>, 70, 88)
MixedSection == GeneratedSection("examples", <<"I", "n", "p", "u", "t", ":", " ", "2", "+", "2",
    " ", "O", "u", "t", "p", "u", "t", ":", " ", "4", " ", "Q", ":", " ", "1", "+", "1", " ", "A",
    ":", " ", "2">>, 70, 88)
PlainExampleSection == GeneratedSection("examples", <<"F", "o", "r", " ", "e", "x", "a", "m", "p",
    "l", "e", " ", "2", "+", "2", " ", "m", "a", "k", "e", "s", " ", "4">>, 70, 88)
BulletedSection ==
  GeneratedSection("constraints", <<"-", " ", "N", "e", "v", "e", "r", " ", "g", "u", "e", "s", "s",
      " ", "a", "n", " ", "a", "n", "s", "w", "e", "r", "\n", "-", " ", "A", "v", "o", "i", "d",
      " ", "s", "l", "a", "n", "g", " ", "w", "o", "r", "d", "s">>, 80, 46)
NumberedSection ==
  GeneratedSection("constraints", <<"1", ".", " ", "N", "e", "v", "e", "r", " ", "g", "u", "e", "s",
      "s", " ", "a", "n", " ", "a", "n", "s", "w", "e", "r", "\n", "2", ".", " ", "A", "v", "o",
      "i", "d", " ", "s", "l", "a", "n", "g", " ", "w", "o", "r", "d", "s">>, 80, 46)
ShortItemsSection == GeneratedSection("constraints", <<"B", "e", " ", "b", "r", "i", "e", "f", ";",
    " ", "b", "e", " ", "k", "i", "n", "d">>, 80, 46)
SingleConstraintSection == GeneratedSection("constraints", <<"N", "e", "v", "e", "r", " ", "g", "u",
    "e", "s", "s", " ", "a", "n", " ", "a", "n", "s", "w", "e", "r">>, 80, 46)
OutputFormatSection == GeneratedSection("outputFormat", <<"R", "e", "s", "p", "o", "n", "d", " ",
    "i", "n", " ", "j", "s", "o", "n", " ", "f", "o", "r", "m", "a", "t", ".">>, 30, 110)
UnknownSection == GeneratedSection("unknown", <<"m", "i", "s", "c", " ", "&", " ", "m", "o", "r",
    "e">>, 10, 135)
LateRoleSection == GeneratedSection("role", <<"A", "c", "t", " ", "a", "s", " ", "a", " ", "<", "j",
    "u", "d", "g", "e", ">">>, 19, 148)

\* the section lists handed to generatePoml
SectionInputs ==
  {<<>>,
   <<TaskSection, RoleSection>>,
   <<ConstraintsSection>>,
   <<OutputFormatSection, ExamplesSection>>,
   <<OutputFormatSection, LateRoleSection, TaskSection, RoleSection>>,
   <<BulletedSection>>,
   <<NumberedSection, RoleSection>>,
   <<ShortItemsSection>>,
   <<SingleConstraintSection>>,
   <<TwoPairsSection>>,
   <<AnsweredSection, RoleSection>>,
   <<MixedSection>>,
   <<PlainExampleSection>>,
   <<LateRoleSection, UnknownSection, RoleSection>>,
   <<RoleSection, TaskSection, ConstraintsSection, ExamplesSection, OutputFormatSection,
     UnknownSection>>}

\* the structures handed to generateFromTemplate
TemplateInputs ==
  {<<[type |-> "role", content |-> <<"Y", "o", "u", " ", "a", "r", "e", " ", "a", " ", "t", "u",
      "t", "o", "r", ".">>],
     [type |-> "task", content |-> <<>>]>>,
   <<[type |-> "unknown", content |-> <<"a", " ", "<", " ", "b">>]>>}

GenerationOptions ==
  [includeConfidence : BOOLEAN, formatOutput : BOOLEAN,
   rootElement : {<<"p", "r", "o", "m", "p", "t">>, <<"p", "o", "m", "l">>, <<"m", "y", " ", "p",
       "r", "o", "m", "p", "t">>}, includeMetadata : BOOLEAN]

\* what a step of generatePoml throws: an Error with a message, or a value
\* that is no Error
ThrownValues ==
  {[isError |-> TRUE, message |-> <<"C", "a", "n", "n", "o", "t", " ", "r", "e", "a", "d", " ", "p",
      "r", "o", "p", "e", "r", "t", "i", "e", "s", " ", "o", "f", " ", "u", "n", "d", "e", "f", "i",
      "n", "e", "d", " ", "(", "r", "e", "a", "d", "i", "n", "g", " ", "'", "t", "r", "i", "m", "'",
      ")">>],
   [isError |-> TRUE, message |-> <<"b", "a", "d", " ", "<", "t", "a", "g", ">", " ", "&", " ",
       "\"", "q", "u", "o", "t", "e", "\"">>],
   [isError |-> FALSE, message |-> <<>>]}
NothingThrown == [isError |-> FALSE, message |-> <<>>]

\* the number of calls of the template engine in one run
MaxGenerations == 1

NoGeneration ==
  [poml |-> <<>>, components |-> <<>>,
   metadata |-> [sectionsProcessed |-> 0, averageConfidence |-> Zero, warnings |-> <<>>]]
Generation(op, fault, thrown, sections, options, result) ==
  [op |-> op, fault |-> fault, thrown |-> thrown, threw |-> FALSE, sections |-> sections,
   options |-> options, poml |-> result.poml, components |-> result.components,
   metadata |-> result.metadata]
NotGenerated ==
  Generation("none", "none", NothingThrown, <<>>,
             [includeConfidence |-> FALSE, formatOutput |-> TRUE,
              rootElement |-> <<"p", "r", "o", "m", "p", "t">>, includeMetadata |-> FALSE],
             NoGeneration)

GeneratorInit ==
  /\ generated = NotGenerated
  /\ generations = 0

\* the faults of a call: none, or a step throwing one of the values
Faults ==
  {<<"none", NothingThrown>>} \cup (GenerationSteps \X ThrownValues)

\* generate(sections, options)
Generate ==
  /\ generations < MaxGenerations
  /\ \E sections \in SectionInputs :
     \E options \in GenerationOptions :
     \E <<fault, thrown>> \in Faults :
     \E result \in {generatePoml(sections, options, fault, thrown)} :
       generated' = Generation("generate", fault, thrown, sections, options, result)
  /\ generations' = generations + 1
  /\ UNCHANGED <<pipelineVars, scorerVars, formatterVars, cleanerVars, repeatVars, bandVars,
      hookVars, debounceVars>>

\* generateFromTemplate(template, options)
GenerateFromTemplate ==
  /\ generations < MaxGenerations
  /\ \E structure \in TemplateInputs :
     \E sections \in {TemplateSections(structure)} :
     \E options \in GenerationOptions :
     \E <<fault, thrown>> \in Faults :
     \E result \in {generatePoml(sections, options, fault, thrown)} :
       generated' = Generation("template", fault, thrown, sections, options, result)
  /\ generations' = generations + 1
  /\ UNCHANGED <<pipelineVars, scorerVars, formatterVars, cleanerVars, repeatVars, bandVars,
      hookVars, debounceVars>>


----------------------------------------------------------------------------
(* cleanContent as a state machine                                         *)

\* the pieces the contents given to cleanContent are made of: the lead-in
\* phrases it removes, in either case, a word and white space
CleanPieces ==
  {<<"p", "l", "e", "a", "s", "e", " ">>, <<"P", "l", "e", "a", "s", "e">>, <<"d", "o", "n", "'",
      "t", " ">>, <<"y", "o", "u", " ", "a", "r", "e", " ">>, <<"r", "e", "s", "p", "o", "n", "d",
      " ", "i", "n">>,
   <<"t", "e", "l", "l", " ", "m", "e">>, <<" ">>, <<"\n">>}

\* the number of pieces of a content
MaxPieces == 3

RECURSIVE ContentsOf(_)
ContentsOf(n) ==
  IF n = 0 THEN {<<>>}
  ELSE The({shorter \cup {piece \o content : piece \in CleanPieces, content \in shorter} :
            shorter \in {ContentsOf(n - 1)}})
CleanInputs == ContentsOf(MaxPieces)

\* the number of calls of cleanContent of one run
MaxCleanings == 1

NotCleaned == [op |-> "none", content |-> <<>>, once |-> <<>>, twice |-> <<>>]

CleanerInit ==
  /\ cleaned = NotCleaned
  /\ cleanings = 0

\* cleanContent(content), and cleanContent of what it returned
Clean ==
  /\ cleanings < MaxCleanings
  /\ \E content \in CleanInputs :
     \E once \in {cleanContent(content)} :
     \E twice \in {cleanContent(once)} :
       cleaned' = [op |-> "cleanContent", content |-> content, once |-> once, twice |-> twice]
  /\ cleanings' = cleanings + 1
  /\ UNCHANGED <<pipelineVars, scorerVars, generatorVars, formatterVars, repeatVars, bandVars,
      hookVars, debounceVars>>

----------------------------------------------------------------------------
(* The scorer late in a process lifetime: updateFromFeedback has already   *)
(* been called a number of times, up to the size of the window it keeps.   *)

\* the numbers of feedbacks submitted before the run starts
SubmittedBefore == {0, 1, FeedbackWindow - 1, FeedbackWindow}

\* feedbackData after n calls of updateFromFeedback on a fresh scorer, all
\* for sections of one type and confidence with the same answer: a record
\* for each call, the last FeedbackWindow of them at most
FeedbackAfterCalls(n, section, userFeedback) ==
  <<>> \o [k \in 1..Min(n, FeedbackWindow) |->
             [sectionType |-> section.type,
              originalConfidence |-> section.confidence,
              userFeedback |-> userFeedback]]

LateScorerInit ==
  /\ confidenceHistory = <<>>
  /\ scorerFeedback \in
       {FeedbackAfterCalls(n, [type |-> type, confidence |-> 100], userFeedback) :
          n \in SubmittedBefore, type \in {"role", "task"}, userFeedback \in BOOLEAN}
  /\ scored = NotScored
  /\ scorings = 0


----------------------------------------------------------------------------
(* The two length rules side by side: the context analyzer's length bonus  *)
(* and the scorer's length multiplier, applied to a block of one category  *)
(* and one length.                                                         *)

\* the lengths tried: the ends of every band of either rule and their
\* neighbours
BandEnds == {0, 10, 15, 20, 30, 40, 50, 80, 100, 150, 200, 300, 500, 1000}
BandLengths == {n + d : n \in BandEnds, d \in {-1, 0, 1}} \ {-1}

\* a text of a length
TextOfLength(n) == [k \in 1..n |-> "a"]

\* the length is neither too short nor too long for the scorer
InScorerBand(type, length) ==
  length >= OptimalRange(type).min /\ length <= OptimalRange(type).max

BandInit ==
  banded = [type |-> "none", length |-> 0, bonus |-> -1, multiplier |-> Zero]

\* the block whose length the rules are about to judge
ChooseBlock ==
  /\ banded.type = "none"
  /\ \E type \in AllTypes : \E length \in BandLengths :
       banded' = [banded EXCEPT !.type = type, !.length = length]
  /\ UNCHANGED <<pipelineVars, scorerVars, generatorVars, formatterVars, cleanerVars, repeatVars,
      hookVars, debounceVars>>

\* ContextAnalyzer.getLengthBonus(type, length), in hundredths
GrantLengthBonus ==
  /\ banded.type # "none" /\ banded.bonus = -1
  /\ banded' = [banded EXCEPT !.bonus = getLengthBonus(banded.type, banded.length)]
  /\ UNCHANGED <<pipelineVars, scorerVars, generatorVars, formatterVars, cleanerVars, repeatVars,
      hookVars, debounceVars>>

\* ConfidenceScorer.getLengthConfidenceMultiplier(section)
ScoreLength ==
  /\ banded.type # "none" /\ banded.multiplier = Zero
  /\ banded' =
       [banded EXCEPT !.multiplier =
          getLengthConfidenceMultiplier([type |-> banded.type,
                                         content |-> TextOfLength(banded.length)])]
  /\ UNCHANGED <<pipelineVars, scorerVars, generatorVars, formatterVars, cleanerVars, repeatVars,
      hookVars, debounceVars>>


----------------------------------------------------------------------------
(* The parser hook (hooks/useParser.ts) over the store (hooks/usePoml.ts). *)
(* analyzeText is an async function: a call runs up to its await, and the  *)
(* rest of it runs later, once the analysis has settled. The analyzer's    *)
(* own analyzeText holds no await, so the calls resume in the order in     *)
(* which they were made.                                                   *)

\* the number of analyzeText calls of the hook in one run
MaxHookCalls == 4

\* what the store holds of detected sections and parsing errors, and the
\* hook of its last analysis: the call they come from, 0 for none
NothingShown == [detectedSections |-> 0, parsingErrors |-> 0, lastAnalysis |-> 0]

HookInit ==
  /\ isProcessing = FALSE
  /\ isAnalyzing = FALSE
  /\ hookCalls = <<>>
  /\ shown = NothingShown

\* analyzeText(text) up to its first await: a blank text empties the
\* detected sections and returns, any other sets both flags and awaits
\* the analysis
StartAnalyzeText ==
  /\ Len(hookCalls) < MaxHookCalls
  /\ \E blank \in BOOLEAN :
       IF blank
       THEN /\ hookCalls' = Append(hookCalls, "returned")
            /\ shown' = [shown EXCEPT !.detectedSections = 0]
            /\ UNCHANGED <<isProcessing, isAnalyzing>>
       ELSE /\ hookCalls' = Append(hookCalls, "awaiting")
            /\ isAnalyzing' = TRUE
            /\ isProcessing' = TRUE
            /\ UNCHANGED shown
  /\ UNCHANGED <<pipelineVars, scorerVars, generatorVars, formatterVars, cleanerVars, repeatVars,
      bandVars, debounceVars>>

\* the call that resumes next: the first that awaits
NextToResume ==
  CHOOSE c \in 1..Len(hookCalls) :
    hookCalls[c] = "awaiting" /\ \A d \in 1..(c - 1) : hookCalls[d] # "awaiting"

\* the rest of analyzeText after its await: the try block shows the result
\* or the catch block the error, and the finally block clears both flags
ResumeAnalyzeText ==
  /\ \E c \in 1..Len(hookCalls) : hookCalls[c] = "awaiting"
  /\ \E failed \in BOOLEAN :
       /\ hookCalls' = [hookCalls EXCEPT ![NextToResume] = IF failed THEN "failed" ELSE "done"]
       /\ shown' = IF failed
                   THEN [shown EXCEPT !.parsingErrors = NextToResume]
                   ELSE [detectedSections |-> NextToResume, parsingErrors |-> NextToResume,
                         lastAnalysis |-> NextToResume]
  /\ isAnalyzing' = FALSE
  /\ isProcessing' = FALSE
  /\ UNCHANGED <<pipelineVars, scorerVars, generatorVars, formatterVars, cleanerVars, repeatVars,
      bandVars, debounceVars>>


----------------------------------------------------------------------------
(* debounce (utils/helpers.ts): the function it returns, its timer and the *)
(* clock. A timer runs its callback no sooner than its delay; it runs it   *)
(* later when the thread is busy, and a call made in the meantime clears   *)
(* it.                                                                      *)

\* the wait the function is debounced with, in time units
DebounceWait == 2
\* the time the clock stops at, and the number of calls in one run
MaxTime == 7
MaxDebounceCalls == 3
\* the arguments of the calls
DebounceArgs == {"first", "second"}

DebounceInit ==
  /\ now = 0
  /\ timeout = <<>>
  /\ called = <<>>
  /\ invoked = <<>>

\* a variant of TimerAfterCall that leaves a pending timer in place
TimerKeptOverCall(pending, time, args) ==
  IF pending # <<>> THEN pending ELSE <<[due |-> time + DebounceWait, args |-> args]>>

\* clearTimeout(timeout); timeout = setTimeout(() => func.apply(null, args), wait)
TimerAfterCall(pending, time, args) ==
  <<[due |-> time + DebounceWait, args |-> args]>>

\* a call of the debounced function
CallDebounced ==
  /\ Len(called) < MaxDebounceCalls
  /\ now + DebounceWait <= MaxTime
  /\ \E args \in DebounceArgs :
       /\ timeout' = TimerAfterCall(timeout, now, args)
       /\ called' = Append(called, [time |-> now, args |-> args])
  /\ UNCHANGED <<now, invoked>>
  /\ UNCHANGED <<pipelineVars, scorerVars, generatorVars, formatterVars, cleanerVars, repeatVars,
      bandVars, hookVars>>

\* the timer runs its callback, func.apply(null, args), at its due time or
\* later; calls records the number of calls made so far
TimerFires ==
  /\ timeout # <<>>
  /\ now >= timeout[1].due
  /\ invoked' = Append(invoked, [time |-> now, args |-> timeout[1].args, calls |-> Len(called)])
  /\ timeout' = <<>>
  /\ UNCHANGED <<now, called>>
  /\ UNCHANGED <<pipelineVars, scorerVars, generatorVars, formatterVars, cleanerVars, repeatVars,
      bandVars, hookVars>>

\* a time unit passes
Tick ==
  /\ now < MaxTime
  /\ now' = now + 1
  /\ UNCHANGED <<timeout, called, invoked>>
  /\ UNCHANGED <<pipelineVars, scorerVars, generatorVars, formatterVars, cleanerVars, repeatVars,
      bandVars, hookVars>>


----------------------------------------------------------------------------
(* Properties of the pipeline                                              *)

\* two sections overlap: a.startIndex < b.endIndex and b.startIndex < a.endIndex
Overlapping(a, b) == a.startIndex < b.endIndex /\ b.startIndex < a.endIndex
NoOverlaps(sections) ==
  \A i, j \in 1..Len(sections) : i # j => ~Overlapping(sections[i], sections[j])

\* extract returned, with overlap resolution asked for
ExtractResolved == out.op = "extract" /\ ~out.threw /\ out.options.resolveOverlaps

\* C1: after extract with resolveOverlaps = true no two distinct returned
\* sections overlap; the same holds of the resolved list after every step
\* of the left-to-right scan (append, replace, merge or keep) and of the
\* list after the cap per type.
OverlapInvariant ==
  ExtractResolved =>
    /\ NoOverlaps(out.sections)
    /\ \A k \in 1..Len(out.steps) : NoOverlaps(out.steps[k].sections)
    /\ NoOverlaps(out.capped)

\* C1's case: the scan resolved an overlap and more than one section is
\* returned
OverlapResolvedWitness ==
  /\ ExtractResolved
  /\ Len(out.sections) >= 2
  /\ out.steps[Len(out.steps)].overlapsResolved > 0
  /\ \E k \in 1..Len(out.sections) : out.sections[k].id[1] = "merged"

\* the input of the overlap scan is Scenario D: two overlapping sections of
\* one type with confidences 70 and 65, in either order
ScenarioD ==
  /\ ExtractResolved
  /\ Len(out.scanned) = 2
  /\ Overlapping(out.scanned[1], out.scanned[2])
  /\ out.scanned[1].type = out.scanned[2].type
  /\ {out.scanned[1].confidence, out.scanned[2].confidence} = {65, 70}

\* C2: overlap resolution of two overlapping sections of one type with
\* confidences 70 and 65, whichever of them starts first, returns exactly
\* one section, whose range is [min of the starts, max of the ends] and
\* whose confidence is 68.
ScenarioDMerges ==
  ScenarioD =>
    LET resolved == out.steps[Len(out.steps)].sections
    IN  /\ Len(resolved) = 1
        /\ resolved[1].startIndex = Min(out.scanned[1].startIndex, out.scanned[2].startIndex)
        /\ resolved[1].endIndex = Max(out.scanned[1].endIndex, out.scanned[2].endIndex)
        /\ resolved[1].confidence = 68

\* analyze returned for Scenario A
ScenarioAAnalyzed == text = ScenarioA /\ out.op = "analyze" /\ out.fault = "none"

FirstSentenceA == <<"Y", "o", "u", " ", "a", "r", "e", " ", "a", " ", "h", "e", "l", "p", "f", "u",
    "l", " ", "a", "s", "s", "i", "s", "t", "a", "n", "t", ".">>
SecondSentenceA == <<"A", "n", "a", "l", "y", "z", "e", " ", "t", "h", "e", " ", "a", "t", "t", "a",
    "c", "h", "e", "d", " ", "r", "e", "p", "o", "r", "t", " ", "a", "n", "d", " ", "s", "u", "m",
    "m", "a", "r", "i", "z", "e", " ", "i", "t", " ", "i", "n", " ", "u", "n", "d", "e", "r", " ",
    "2", "0", "0", " ", "w", "o", "r", "d", "s", ".">>

IndexInvariant ==
  \A k \in 1..Len(out.sections) :
    /\ 0 <= out.sections[k].startIndex
    /\ out.sections[k].startIndex < out.sections[k].endIndex
    /\ out.sections[k].endIndex <= IndexScale * Len(text)

\* every list of sections an operation built
SectionLists ==
  {out.sections, out.capped, out.scanned} \cup {out.steps[k].sections : k \in 1..Len(out.steps)}

\* C5: every section produced by analyze, extract (merged sections
\* included), extractWithCustomPatterns and reanalyzeSection has an
\* integer confidence between 0 and 100.
ConfidenceBounds ==
  \A sections \in SectionLists :
    \A k \in 1..Len(sections) : sections[k].confidence \in 0..100

\* C5's case: a merged section is returned
MergedSectionWitness ==
  /\ ExtractResolved
  /\ \E k \in 1..Len(out.sections) :
       out.sections[k].id[1] = "merged" /\ out.sections[k].confidence \in 1..99

\* C7: no public operation lets an exception escape.
NothingEscapes == ~out.threw

\* C8: when a step of the analysis of a non-blank text fails, analyze does
\* not throw and returns no section, confidence 0 and exactly one error,
\* of type analysis_error and severity error.
AnalysisFailureReported ==
  (out.op = "analyze" /\ out.fault \in AnalysisSteps /\ ~IsBlank(text)) =>
    /\ ~out.threw
    /\ out.sections = <<>>
    /\ out.confidence = 0
    /\ Len(out.errors) = 1
    /\ out.errors[1].type = "analysis_error"
    /\ out.errors[1].severity = "error"

AnalysisFailureWitness ==
  /\ out.op = "analyze" /\ out.fault = "matchPatterns" /\ ~IsBlank(text)
  /\ Len(out.errors) = 1


----------------------------------------------------------------------------
(* Properties of the scorer, the template engine and the formatter         *)

\* a score lies in [0, 1]
InUnit(x) == ~FracLess(x, Zero) /\ ~FracLess(One, x)

\* C6: every raw score is in [0, 1]: the pattern matcher's raw score, the
\* result of scoreSection (which is also at least 0.1), the result of
\* scorePatternMatch, every value of the scorer's confidence history and
\* so the average confidence it reports.
RawScoresInUnit ==
  /\ InUnit(scored.raw)
  /\ InUnit(scored.value)
  /\ scored.op = "section" => ~FracLess(scored.value, Frac(1, 10))
  /\ \A k \in 1..Len(confidenceHistory) : InUnit(confidenceHistory[k])
  /\ InUnit(getAverageConfidence(confidenceHistory))

\* generate or generateFromTemplate was called and a step of it failed
GenerationFailed == generated.op # "none" /\ generated.fault \in GenerationSteps

\* the markup is a root element named root that wraps exactly one error
\* leaf, whose text without the white space around it is leafText
IsErrorMarkup(markup, root, leafText) ==
  /\ WellFormed(markup)
  /\ \E elements \in {ParseMarkup(markup)} :
       /\ Len(elements) = 1
       /\ elements[1].tag = root
       /\ Len(elements[1].children) = 1
       /\ elements[1].children[1].tag = <<"e", "r", "r", "o", "r">>
       /\ elements[1].children[1].attributes = <<>>
       /\ elements[1].children[1].children = <<>>
       /\ Trim(elements[1].children[1].text) = leafText

\* C9 as stated: when a step of generate fails, generate does not throw
\* and returns markup that is a root element wrapping exactly one error
\* leaf whose text is the XML-escaped error message, an empty component
\* list and a warning recording the failure.
ErrorLeafIsTheMessage ==
  GenerationFailed =>
    /\ ~generated.threw
    /\ \E root \in {<<"p", "r", "o", "m", "p", "t">>, <<"p", "o", "m", "l">>} :
         IsErrorMarkup(generated.poml, root, MessageOf(generated.thrown))
    /\ generated.components = <<>>
    /\ Len(generated.metadata.warnings) = 1

\* C9: when a step of generate fails, generate does not throw and returns
\* well-formed markup that is the root element prompt, whatever root the
\* options name, wrapping exactly one error leaf whose text is "Failed to
\* generate POML: " followed by the XML-escaped error message, with an
\* empty component list, sectionsProcessed 0 and the single warning
\* "Generation failed: " followed by the message.
GenerationFailureReported ==
  GenerationFailed =>
    /\ ~generated.threw
    /\ IsErrorMarkup(generated.poml, <<"p", "r", "o", "m", "p", "t">>,
                     <<"F", "a", "i", "l", "e", "d", " ", "t", "o", " ", "g", "e", "n", "e", "r",
                         "a", "t", "e", " ", "P", "O", "M", "L", ":",
                         " ">> \o MessageOf(generated.thrown))
    /\ generated.components = <<>>
    /\ generated.metadata.sectionsProcessed = 0
    /\ generated.metadata.warnings
         = <<<<"G", "e", "n", "e", "r", "a", "t", "i", "o", "n", " ", "f", "a", "i", "l", "e", "d",
             ":", " ">> \o MessageOf(generated.thrown)>>

\* C9's case: a step failed with a message that needs escaping, under
\* options that name another root
GenerationFailureWitness ==
  /\ GenerationFailed
  /\ generated.thrown.isError
  /\ Includes(generated.thrown.message, <<"<">>)
  /\ Includes(generated.poml, <<"&", "l", "t", ";", "t", "a", "g", "&", "g", "t", ";", " ", "&",
      "a", "m", "p", ";", " ", "&", "q", "u", "o", "t", ";", "q", "u", "o", "t", "e", "&", "q", "u",
      "o", "t", ";">>)
  /\ generated.options.rootElement = <<"p", "o", "m", "l">>

\* C10: for every component list that validate accepts, the markup format
\* returns, read back, has the same tags, the same attribute sets and the
\* same leaf texts.
FormatRoundTrip ==
  (formatted.op = "format" /\ ValidationErrors(formatted.components) = <<>>) =>
    SameTrees(formatted.components, ParseMarkup(formatted.markup))


----------------------------------------------------------------------------
(* Further properties                                                      *)

\* C11: cleaning is idempotent: cleanContent(cleanContent(x)) =
\* cleanContent(x) for every content x, contents that begin with repeated
\* or stacked lead-in phrases included.
CleaningIdempotent ==
  cleaned.op = "cleanContent" => cleaned.twice = cleaned.once

\* two section lists agree in content, type, startIndex, endIndex and
\* confidence
SameSections(a, b) ==
  /\ Len(a) = Len(b)
  /\ \A k \in 1..Len(a) :
       /\ a[k].content = b[k].content
       /\ a[k].type = b[k].type
       /\ a[k].startIndex = b[k].startIndex
       /\ a[k].endIndex = b[k].endIndex
       /\ a[k].confidence = b[k].confidence

ExtractExpanded ==
  /\ out.op = "extract" /\ ~out.threw /\ out.fault = "none"
  /\ out.options.preserveContext /\ ~out.options.resolveOverlaps

\* the section of the analysis of the text that a returned section was
\* expanded from
OriginalOf(section) ==
  The({The({sections[k] : k \in {k \in 1..Len(sections) : sections[k].id = section.id}}) :
       sections \in {AnalysisNow(BlockMatches(text)).sections}})

SpanLength(section) == section.endIndex - section.startIndex

\* C13: with preserveContext the span of every section that boundary
\* expansion returns is at most 1.5 times as long as the section's
\* original span.
ExpansionCapped ==
  ExtractExpanded =>
    \A k \in 1..Len(out.sections) :
      2 * SpanLength(out.sections[k]) <= 3 * SpanLength(OriginalOf(out.sections[k]))

SentenceTerminators == {".", "!", "?"}

\* offset p lies just after a sentence terminator, or after a terminator
\* and the white space that follows it
AfterTerminator(p) ==
  \E q \in 1..p : text[q] \in SentenceTerminators /\ \A r \in (q + 1)..p : text[r] \in Whitespace

\* offset p lies at a sentence terminator: the terminator is the character
\* at p or the one before it
AtTerminator(p) ==
  \/ p < Len(text) /\ text[p + 1] \in SentenceTerminators
  \/ p > 0 /\ text[p] \in SentenceTerminators

\* the start expanded is the position after the nearest terminator before
\* the start original (white space after the terminator may be skipped),
\* when that terminator lies within maxExpansion
StartAtTerminator(expanded, original, maxExpansion) ==
  LET start == ToOffset(original.startIndex)
      before == {q \in 1..start : text[q] \in SentenceTerminators}
      nearest == CHOOSE q \in before : \A q2 \in before : q2 <= q
  IN  (before # {} /\ IndexScale * (start - nearest) <= maxExpansion) =>
        /\ expanded.startIndex \in {IndexScale * p : p \in nearest..start}
        /\ \A r \in (nearest + 1)..ToOffset(expanded.startIndex) : text[r] \in Whitespace

\* the end expanded is at the nearest terminator after the end original,
\* before or after the terminator itself, when it lies within maxExpansion
EndAtTerminator(expanded, original, maxExpansion) ==
  LET end == ToOffset(original.endIndex)
      after == {q \in (end + 1)..Len(text) : text[q] \in SentenceTerminators}
      nearest == CHOOSE q \in after : \A q2 \in after : q <= q2
  IN  (after # {} /\ ~AtTerminator(end) /\ IndexScale * (nearest - end) <= maxExpansion) =>
        expanded.endIndex \in {IndexScale * (nearest - 1), IndexScale * nearest}

\* C20: with preserveContext the start of each section is moved left to
\* the position just after the nearest preceding sentence terminator and
\* its end right to the nearest following one, whenever they lie within
\* the cap; a section that already begins right after a terminator and
\* ends at one keeps its boundaries.
ExpansionToTerminators ==
  ExtractExpanded =>
    \A k \in 1..Len(out.sections) :
      \E expanded \in {out.sections[k]} :
      \E original \in {OriginalOf(out.sections[k])} :
      \E maxExpansion \in {SpanLength(original) \div 2} :
        /\ StartAtTerminator(expanded, original, maxExpansion)
        /\ EndAtTerminator(expanded, original, maxExpansion)
        /\ (/\ AfterTerminator(ToOffset(original.startIndex))
            /\ AtTerminator(ToOffset(original.endIndex))) =>
             /\ expanded.startIndex = original.startIndex
             /\ expanded.endIndex = original.endIndex


\* generate or the template entry point returned without a failure
GeneratedTree == generated.op # "none" /\ generated.fault = "none"

\* the component tree of the last generation, root included
GeneratedRoot ==
  RootComponent(generated.sections, generated.components, generated.options)

\* the texts and attribute values of a component tree
RECURSIVE TreeStrings(_)
TreeStrings(component) ==
  {component.attributes[k].value : k \in 1..Len(component.attributes)}
  \cup (IF component.isArray
        THEN UNION {TreeStrings(component.children[k]) : k \in 1..Len(component.children)}
        ELSE {component.content})

XmlEntities == {<<"&", "a", "m", "p", ";">>, <<"&", "l", "t", ";">>, <<"&", "g", "t", ";">>, <<"&",
    "q", "u", "o", "t", ";">>, <<"&", "a", "p", "o", "s", ";">>}

\* C14: every component tree that generate or the template entry point
\* produces satisfies the Component invariant at every node, the root
\* included: tags and attribute keys are valid names, whatever root tag
\* the options name, and the texts and attribute values are unescaped.
ComponentInvariant ==
  GeneratedTree =>
    /\ validateComponent(GeneratedRoot) = <<>>
    /\ \A s \in TreeStrings(GeneratedRoot) : \A entity \in XmlEntities : ~Includes(s, entity)

\* the feedback the context analyzer's sink holds for a category
RecordedFor(type) ==
  SelectSeq(feedbackData, LAMBDA f : f.oldType = type)

\* 0.8 + 0.4 x the acceptance rate over the feedback recorded for a category
RecordedMultiplier(type) ==
  Frac(8 * Len(RecordedFor(type))
         + 4 * Len(SelectSeq(RecordedFor(type), LAMBDA f : f.wasCorrect)),
       10 * Len(RecordedFor(type)))

\* C15: the feedback recorded through the context analyzer's sink is
\* consumed by the confidence scorer: once feedback for a category has been
\* recorded, the scorer's feedback multiplier for the category is 0.8 + 0.4 x
\* the acceptance rate over that feedback, and it is 1.0 only for a category
\* without recorded feedback.
SinkFeedbackConsumed ==
  \A k \in 1..Len(feedbackData) : \E type \in {feedbackData[k].oldType} :
    getFeedbackBasedMultiplier(type, scorerFeedback) = RecordedMultiplier(type)

\* the last call evaluated a section or a pattern match
Evaluated == scored.op \in {"section", "pattern"}

\* C16: every confidence the scorer evaluates is appended to its running
\* history: after a scoreSection or scorePatternMatch call the history ends
\* with the value returned, over which the average is then taken.
EvaluationRecorded ==
  Evaluated =>
    /\ confidenceHistory # <<>>
    /\ confidenceHistory[Len(confidenceHistory)] = scored.value

\* the scores of the rules of a category that match the lowered text
RuleScores(type, lowerText) ==
  {calculatePatternScore(Substring(lowerText, m.index, m.end), lowerText) :
     m \in {n \in {SearchFrom(PatternsOf(type)[k], lowerText, 0) :
                     k \in 1..Len(PatternsOf(type))} : n.index # -1}}

\* what matchPatterns promises of the matches it returns for a text
MatchContract(matches, lowerText) ==
  /\ \A i, j \in 1..Len(matches) : matches[i].type = matches[j].type => i = j
  /\ \A i \in 1..Len(matches) :
       /\ 10 * matches[i].confidence > 3 * matches[i].den
       /\ matches[i].confidence <= matches[i].den
       /\ matches[i].confidence \in RuleScores(matches[i].type, lowerText)
  /\ \A i \in 1..Len(matches) - 1 : matches[i].confidence >= matches[i + 1].confidence
  /\ \A k \in 1..Len(SectionTypes) :
       (\E i \in 1..Len(matches) : matches[i].type = SectionTypes[k])
         <=> (\E score \in RuleScores(SectionTypes[k], lowerText) :
                10 * score > 3 * ScoreDen(Len(lowerText)))

\* the blocks the analyzer hands to the matcher
MatchedBlocks == splitIntoBlocks(text)

\* C17: for every text, matchPatterns returns at most one match per
\* category, each with a confidence above 0.3 and at most 1.0, in order of
\* non-increasing confidence; a category none of whose rules matches, or
\* whose best rule scores 0.3 or less, is omitted.
MatchesBestPerCategory ==
  out.op = "analyze" /\ out.fault = "none" =>
    \A k \in 1..Len(MatchedBlocks) : \E content \in {MatchedBlocks[k].content} :
      \E matches \in {matchPatterns(content)} :
        MatchContract(matches, ToLowerCase(content))

\* an analysis has matched a block in which two categories score
\* differently, the later category higher, and a category is omitted
MatchesWitness ==
  /\ out.op = "analyze" /\ out.fault = "none"
  /\ \E k \in 1..Len(MatchedBlocks) :
     \E matches \in {matchPatterns(MatchedBlocks[k].content)} :
       /\ Len(matches) >= 2
       /\ Len(matches) < Len(SectionTypes)
       /\ matches[1].confidence > matches[2].confidence
       /\ \E i, j \in 1..Len(SectionTypes) :
            i < j /\ SectionTypes[j] = matches[1].type /\ SectionTypes[i] = matches[2].type

ScenarioC == <<"I", "n", "p", "u", "t", ":", " ", "2", "+", "2", " ", "O", "u", "t", "p", "u", "t",
    ":", " ", "4">>

\* the offsets of a label in a text, whatever the case of its letters
LabelOffsets(s, label) ==
  {p \in 0..(Len(s) - Len(label)) : Substring(ToLowerCase(s), p, p + Len(label)) = label}

\* the pair sub-components of an examples component, in order
ExamplePairs(component) ==
  The({<<>> \o [k \in 1..Len(pairs) |->
                  [input |-> pairs[k].children[1].content,
                   output |-> pairs[k].children[2].content]] :
       pairs \in {SelectSeq(component.children,
                            LAMBDA c : c.isArray /\ Len(c.children) = 2)}})

\* the examples sections of the last generation with their components
ExamplesEmitted ==
  {<<cleanContent(generated.sections[i].content), ExamplePairs(generated.components[k])>> :
     <<i, k>> \in {<<j, n>> \in (1..Len(generated.sections)) \X (1..Len(generated.components)) :
                     /\ generated.sections[j].type = "examples"
                     /\ generated.components[n].tag = <<"e", "x", "a", "m", "p", "l", "e", "s">>}}

\* C18 as stated: an examples section whose content contains
\* "Input: 2+2 Output: 4" yields exactly one pair, of input "2+2" and output
\* "4", and each Input:/Output: or Q:/A: labelled pair of the content yields
\* one pair sub-component.
EveryLabelledPairEmitted ==
  GeneratedTree =>
    \A <<content, pairs>> \in ExamplesEmitted :
      /\ Includes(content, ScenarioC) => pairs = <<[input |-> <<"2", "+", "2">>,
          output |-> <<"4">>]>>
      /\ Len(pairs) = Cardinality(LabelOffsets(content, <<"i", "n", "p", "u", "t", ":">>))
                        + Cardinality(LabelOffsets(content, <<"q", ":">>))

\* the k-th pair holds the text that follows the k-th label of its kind
PairsInOrder(content, pairs, first, second) ==
  \A k \in 1..Len(pairs) :
    \E p \in LabelOffsets(content, first) :
      /\ Cardinality({q \in LabelOffsets(content, first) : q < p}) = k - 1
      /\ \E q \in LabelOffsets(content, second) :
           /\ p < q /\ \A r \in LabelOffsets(content, second) : p < r => q <= r
           /\ pairs[k].input = Trim(Substring(content, p + Len(first), q))
           /\ \E e \in {n \in LabelOffsets(content, first) \cup {Len(content)} : q < n} :
                /\ \A n \in LabelOffsets(content, first) : q < n => e <= n
                /\ pairs[k].output = Trim(Substring(content, q + Len(second), e))

\* C18, amended: the section whose content is "Input: 2+2 Output: 4" yields
\* exactly one pair, of input "2+2" and output "4"; each Input:/Output:
\* labelled pair yields one pair sub-component, in order, whose output runs
\* to the next Input: label or the end of the content, and Q:/A: labelled
\* pairs are read only in a content without an Input:/Output: pair.
LabelledPairsOfOneKind ==
  GeneratedTree =>
    \A <<content, pairs>> \in ExamplesEmitted :
      /\ content = ScenarioC => pairs = <<[input |-> <<"2", "+", "2">>, output |-> <<"4">>]>>
      /\ IF LabelOffsets(content, <<"i", "n", "p", "u", "t", ":">>) # {}
         THEN /\ Len(pairs) = Cardinality(LabelOffsets(content, <<"i", "n", "p", "u", "t", ":">>))
              /\ PairsInOrder(content, pairs, <<"i", "n", "p", "u", "t", ":">>, <<"o", "u", "t",
                  "p", "u", "t", ":">>)
         ELSE /\ Len(pairs) = Cardinality(LabelOffsets(content, <<"q", ":">>))
              /\ PairsInOrder(content, pairs, <<"q", ":">>, <<"a", ":">>)

\* a generation has emitted an examples component of two pairs
TwoPairsEmitted ==
  GeneratedTree /\ \E <<content, pairs>> \in ExamplesEmitted : Len(pairs) = 2

\* C19: the feedback history only grows: whatever the number of feedbacks
\* submitted, more than 100 included, a submission leaves every record of
\* the history in its place and adds its own.
FeedbackHistoryGrows ==
  [][/\ Len(scorerFeedback') >= Len(scorerFeedback)
     /\ \A k \in 1..Len(scorerFeedback) : scorerFeedback'[k] = scorerFeedback[k]]_vars

\* both length rules have judged the block
BothJudged == banded.type # "none" /\ banded.bonus # -1 /\ banded.multiplier # Zero

\* C21: the context analyzer's length bonus uses the scorer's length bands:
\* for every category and length the analyzer grants its 0.05 exactly when
\* the length lies within the scorer's band for the category, that is when
\* the scorer applies neither its too-short nor its too-long penalty.
SameLengthBands ==
  BothJudged => (banded.bonus = 5 <=> InScorerBand(banded.type, banded.length))

\* the sections of the last generate call that pass the confidence floor
KeptSections ==
  SelectSeq(generated.sections, LAMBDA section : section.confidence >= 20)

\* the place of a kept section in the canonical order: after the kept
\* sections of an earlier category and those of its category that start
\* before it
CanonicalPlace(i) ==
  1 + Cardinality({j \in 1..Len(KeptSections) :
        \/ TypeOrder(KeptSections[j].type) < TypeOrder(KeptSections[i].type)
        \/ /\ KeptSections[j].type = KeptSections[i].type
           /\ KeptSections[j].startIndex < KeptSections[i].startIndex})

Generated == generated.op = "generate" /\ generated.fault = "none"

ContentLines(content) ==
  SelectSeq(<<>> \o [k \in 1..Len(SplitByChar(content, "\n")) |->
                       Trim(SplitByChar(content, "\n")[k])],
            LAMBDA line : line # <<>>)

IsBulleted(line) == line[1] \in {"-", "*"}
IsNumbered(line) == Len(line) >= 2 /\ line[1] \in Digits /\ line[2] = "."

\* the items separated by a separator, those that hold something
SeparatedItems(content, separator) ==
  SelectSeq(SplitByChar(content, separator), LAMBDA item : Trim(item) # <<>>)

\* the number of items of a content that is a list: its bulleted lines, its
\* numbered lines, or the items its separators delimit; 1 otherwise
ListItemCount(content) ==
  The({IF Len(SelectSeq(lines, IsBulleted)) >= 2 THEN Len(SelectSeq(lines, IsBulleted))
       ELSE IF Len(SelectSeq(lines, IsNumbered)) >= 2 THEN Len(SelectSeq(lines, IsNumbered))
       ELSE IF Len(lines) >= 2 THEN Len(lines)
       ELSE IF Len(SeparatedItems(content, ";")) >= 2 THEN Len(SeparatedItems(content, ";"))
       ELSE IF Len(SeparatedItems(content, ",")) >= 2 THEN Len(SeparatedItems(content, ","))
       ELSE 1 :
       lines \in {ContentLines(content)}})

\* the constraints sections the last generate call kept, with the captioned
\* components it returned
ConstraintsEmitted ==
  {<<generated.sections[i].content, generated.components[k]>> :
     <<i, k>> \in {<<j, n>> \in (1..Len(generated.sections)) \X (1..Len(generated.components)) :
                     /\ generated.sections[j].type = "constraints"
                     /\ generated.sections[j].confidence >= 20
                     /\ generated.components[n].tag = <<"c", "p">>}}

\* C23: a constraints section whose content is a list of two or more
\* items, bulleted lines, numbered lines or separator-delimited items,
\* yields a captioned component that holds a list with one item child per
\* list item; only a content that is no such list yields a captioned leaf.
ListedConstraintsEmitted ==
  Generated =>
    \A <<content, component>> \in ConstraintsEmitted :
      /\ component.attributes[1] = Attr(<<"c", "a", "p", "t", "i", "o", "n">>, <<"C", "o", "n", "s",
          "t", "r", "a", "i", "n", "t", "s">>)
      /\ IF ListItemCount(content) >= 2
         THEN /\ component.isArray
              /\ Len(component.children) = 1
              /\ component.children[1].tag = <<"l", "i", "s", "t">>
              /\ Len(component.children[1].children) = ListItemCount(content)
              /\ \A k \in 1..ListItemCount(content) :
                   component.children[1].children[k].tag = <<"i", "t", "e", "m">>
         ELSE ~component.isArray

ExtractReturned == out.op = "extract" /\ ~out.threw /\ out.fault = "none"

\* the sections extract holds before the cap per type: the result of the
\* overlap scan, or the filtered and expanded sections without it
BeforeCap ==
  IF out.options.resolveOverlaps
  THEN out.steps[Len(out.steps)].sections
  ELSE FilterAndExpand(AnalysisNow(BlockMatches(text)), text, out.options)

\* the sections the cap dropped from the list before it
DroppedByCap(before) ==
  {before[k] : k \in {j \in 1..Len(before) :
                        \A i \in 1..Len(out.sections) : out.sections[i].id # before[j].id}}

\* C24: extract returns at most maxSectionsPerType sections of a category,
\* no section the cap dropped has a higher confidence than a returned
\* section of its category, every returned section has a confidence of at
\* least minConfidenceThreshold, and the returned list is in ascending
\* order of startIndex.
CappedAndSorted ==
  ExtractReturned =>
    \E before \in {BeforeCap} : \E droppedSections \in {DroppedByCap(before)} :
      /\ \A type \in AllTypes :
           Cardinality({k \in 1..Len(out.sections) : out.sections[k].type = type})
             <= out.options.maxSectionsPerType
      /\ \A dropped \in droppedSections : \A k \in 1..Len(out.sections) :
           out.sections[k].type = dropped.type
             => dropped.confidence <= out.sections[k].confidence
      /\ \A k \in 1..Len(out.sections) :
           /\ out.sections[k].confidence >= out.options.minConfidenceThreshold
           /\ \E j \in 1..Len(before) : before[j] = out.sections[k]
      /\ \A k \in 1..(Len(out.sections) - 1) :
           out.sections[k].startIndex <= out.sections[k + 1].startIndex

\* an extract call whose cap dropped a section that stood before a
\* returned section of its category
CapDroppedWitness ==
  /\ ExtractReturned
  /\ \E before \in {BeforeCap} : \E dropped \in DroppedByCap(before) :
     \E k \in 1..Len(out.sections) :
       /\ out.sections[k].type = dropped.type
       /\ dropped.startIndex < out.sections[k].startIndex
       /\ dropped.confidence < out.sections[k].confidence

\* the tokens of a content: its words in lower case
TokenSet(content) == {WordsOf(content)[k] : k \in 1..Len(WordsOf(content))}

\* the word-overlap similarity of two contents is above 0.8: the number of
\* shared tokens over the size of the larger token set
OverlapAboveThreshold(content1, content2) ==
  \E tokens1 \in {TokenSet(content1)} : \E tokens2 \in {TokenSet(content2)} :
    10 * Cardinality(tokens1 \cap tokens2)
      > 8 * Max(Cardinality(tokens1), Cardinality(tokens2))

CustomReturned == out.op = "custom" /\ ~out.threw

\* C25: no two sections of the list extractWithCustomPatterns returns have
\* a word-overlap similarity above 0.8, the similarity being the number of
\* shared tokens over the size of the larger token set, the same in either
\* direction.
NoTwoSimilarSections ==
  CustomReturned =>
    \A i, j \in 1..Len(out.sections) :
      i < j => ~OverlapAboveThreshold(out.sections[i].content, out.sections[j].content)

\* the type of a best rule match of a section's text, the section's own
\* type when no rule matches
BestRuleTypes(section) ==
  The({IF matches = <<>> THEN {section.type}
       ELSE {matches[k].type : k \in {i \in 1..Len(matches) :
                \A j \in 1..Len(matches) : matches[j].confidence <= matches[i].confidence}} :
       matches \in {matchPatterns(SectionText(section, text))}})

\* C26: reanalyzeSection returns a section with the id, content, startIndex
\* and endIndex of its input, whose category is that of the best rule match
\* on the section's text or the original one when no rule matches, and it
\* appends one feedback record when feedback is supplied and none otherwise.
ReanalysisFrame ==
  [][(out'.op = "reanalyze" /\ ~out'.threw /\ reanalyses' = reanalyses + 1) =>
       /\ Len(out'.sections) = 1
       /\ out'.sections[1].id = out'.input[1].id
       /\ out'.sections[1].content = out'.input[1].content
       /\ out'.sections[1].startIndex = out'.input[1].startIndex
       /\ out'.sections[1].endIndex = out'.input[1].endIndex
       /\ out'.sections[1].type \in BestRuleTypes(out'.input[1])
       /\ Len(feedbackData') = Len(feedbackData) + (IF out'.input[2].given THEN 1 ELSE 0)
       /\ \A k \in 1..Len(feedbackData) : feedbackData'[k] = feedbackData[k]]_vars

\* a reanalysis with feedback of a section on whose text rules of two
\* categories match with different scores
ReanalysisWitness ==
  /\ out.op = "reanalyze" /\ ~out.threw
  /\ out.input[2].given
  /\ feedbackData # <<>>
  /\ \E matches \in {matchPatterns(SectionText(out.input[1], text))} :
       /\ Len(matches) >= 2
       /\ matches[1].confidence > matches[Len(matches)].confidence
       /\ out.sections[1].type = matches[1].type

\* the matches of a category among the match lists of a step
MatchesOfCategory(matchLists, c) ==
  Cardinality({<<k, i>> \in (1..Len(matchLists)) \X (1..Len(SectionTypes)) :
                 i <= Len(matchLists[k]) /\ matchLists[k][i].type = c})

\* the match lists the matcher returned in a step: one per block for an
\* analysis that reached the matcher and went through it, one for a
\* reanalysis that did, none otherwise
MatchListsOfStep(calledAnalysis, reanalysed, outcome) ==
  IF calledAnalysis
  THEN IF IsBlank(text) \/ outcome.fault \in {"splitIntoBlocks", "matchPatterns"} THEN <<>>
       ELSE The({<<>> \o [k \in 1..Len(blockMatches) |-> blockMatches[k].matches] :
                 blockMatches \in {BlockMatches(text)}})
  ELSE IF reanalysed /\ ~outcome.threw
       THEN <<matchPatterns(SectionText(outcome.input[1], text))>>
       ELSE <<>>

IsWholeOffset(index) == index % IndexScale = 0

\* C28: every section extract returns, with preserveContext on or off, has
\* integer startIndex and endIndex: offsets of characters of the text.
IntegerOffsets ==
  ExtractReturned =>
    \A k \in 1..Len(out.sections) :
      IsWholeOffset(out.sections[k].startIndex) /\ IsWholeOffset(out.sections[k].endIndex)

\* an analyzeText call of the hook has started and not yet settled
CallPending == \E c \in 1..Len(hookCalls) : hookCalls[c] = "awaiting"

\* C29: in the parser hook the store's isProcessing flag is true whenever a
\* non-blank analyzeText call has started and not yet settled, whatever the
\* interleaving of overlapping calls, and false once every started call
\* has settled.
ProcessingWhilePending == isProcessing <=> CallPending

\* the wrapped function was never invoked while fewer than the wait had
\* passed since the most recent call, and always with that call's arguments
InvokedAfterWait ==
  \A j \in 1..Len(invoked) :
    /\ invoked[j].calls >= 1
    /\ invoked[j].time - called[invoked[j].calls].time >= DebounceWait
    /\ invoked[j].args = called[invoked[j].calls].args
    /\ \A i \in 1..(j - 1) : invoked[i].calls < invoked[j].calls

\* call c is the last of its burst: the next call came the wait or more
\* after it
EndsBurst(c) ==
  c < Len(called) /\ called[c + 1].time - called[c].time >= DebounceWait

\* the invocations that followed call c and came before the next call
InvocationsOf(c) == {j \in 1..Len(invoked) : invoked[j].calls = c}

\* C30 as stated: the wrapped function is never invoked while fewer than
\* the wait has passed since the most recent call, and each burst of calls
\* separated by gaps shorter than the wait causes exactly one invocation,
\* with the arguments of the last call of the burst.
OneInvocationPerBurst ==
  /\ InvokedAfterWait
  /\ \A c \in 1..Len(called) :
       /\ EndsBurst(c) => Cardinality(InvocationsOf(c)) = 1
       /\ (c < Len(called) /\ ~EndsBurst(c)) => InvocationsOf(c) = {}

\* call c is the last of the calls made so far and no invocation has
\* followed it
Unanswered(c) == Len(called) = c /\ InvocationsOf(c) = {}

\* C30, amended: the wrapped function is never invoked while fewer than
\* the wait has passed since the most recent call, and always with the
\* arguments of that call; a call clears the invocation still pending,
\* were it due, so that the calls made before an invocation has run cause
\* one invocation, at most one following each call; and every call is
\* followed in the end by an invocation or by a further call.
DebouncedInvocations ==
  /\ []InvokedAfterWait
  /\ \A c \in 1..MaxDebounceCalls : Unanswered(c) ~> ~Unanswered(c)

\* the wrapped function has been invoked after two calls in a burst and
\* again after a later call
TwoBurstsInvoked ==
  /\ Len(invoked) = 2
  /\ invoked[1].calls = 2 /\ invoked[2].calls = 3
  /\ called[2].time - called[1].time < DebounceWait


----------------------------------------------------------------------------
(* The specifications: each runs one part of the program and leaves the    *)
(* others in their initial state                                           *)

PipelineIdle ==
  /\ text = EmptyText
  /\ patternStats = [c \in AllTypes |-> 0]
  /\ totalAnalyses = 0
  /\ feedbackData = <<>>
  /\ calls = 0
  /\ reanalyses = 0
  /\ out = NoOutcome

OtherInit == BandInit /\ HookInit /\ DebounceInit

Init == PipelineInit /\ ScorerInit /\ GeneratorInit /\ FormatterInit /\ CleanerInit /\ RepeatInit /\ OtherInit
Next == Analyze \/ Extract \/ ExtractCustom \/ Reanalyze
Spec == Init /\ [][Next]_vars

InitScorer == PipelineIdle /\ ScorerInit /\ GeneratorInit /\ FormatterInit /\ CleanerInit /\ RepeatInit /\ OtherInit
NextScorer == ScoreSection \/ ScorePattern \/ ScoreOverall \/ UpdateFromFeedback
SpecScorer == InitScorer /\ [][NextScorer]_vars

InitGen == PipelineIdle /\ ScorerInit /\ GeneratorInit /\ FormatterInit /\ CleanerInit /\ RepeatInit /\ OtherInit
NextGen == Generate \/ GenerateFromTemplate
SpecGen == InitGen /\ [][NextGen]_vars

InitFmt == PipelineIdle /\ ScorerInit /\ GeneratorInit /\ FormatterInit /\ CleanerInit /\ RepeatInit /\ OtherInit
NextFmt == Format \/ FormatMinified \/ Validate
SpecFmt == InitFmt /\ [][NextFmt]_vars

InitClean == PipelineIdle /\ ScorerInit /\ GeneratorInit /\ FormatterInit /\ CleanerInit /\ RepeatInit /\ OtherInit
NextClean == Clean
SpecClean == InitClean /\ [][NextClean]_vars

InitLate == PipelineIdle /\ LateScorerInit /\ GeneratorInit /\ FormatterInit /\ CleanerInit /\ RepeatInit /\ OtherInit
NextLate == UpdateFromFeedback
SpecLate == InitLate /\ [][NextLate]_vars

InitBands == InitScorer
NextBands == ChooseBlock \/ GrantLengthBonus \/ ScoreLength
SpecBands == InitBands /\ [][NextBands]_vars

InitHook == InitScorer
NextHook == StartAnalyzeText \/ ResumeAnalyzeText
SpecHook == InitHook /\ [][NextHook]_vars

\* the clock advances and a due timer runs in the end
InitDebounce == InitScorer
NextDebounce == CallDebounced \/ TimerFires \/ Tick
SpecDebounce ==
  InitDebounce /\ [][NextDebounce]_vars /\ WF_vars(Tick) /\ WF_vars(TimerFires)

InitRepeat == Init
NextRepeat == AnalyzeAgain \/ Reanalyze
SpecRepeat == InitRepeat /\ [][NextRepeat]_vars
====
